---- MODULE Spec2Model ----
(***************************************************************************)
(* A model of the Unkey Terraform provider: the resource handlers          *)
(* (Create / Read / Update / Delete) of the API, Key, Role, Permission and *)
(* Identity resources, and the converters they use.                        *)
(*                                                                         *)
(* One behaviour follows one resource instance of one kind, whose          *)
(* configurations differ from a baseline in one attribute.  The remote     *)
(* Unkey service and the Terraform host are the environment: a remote call *)
(* may fail or succeed, and the reply to a get call is any entity the      *)
(* service can hold.                                                       *)
(***************************************************************************)
EXTENDS Integers, Sequences, FiniteSets, TLC

VARIABLES
    kind,      \* the resource kind this behaviour follows
    base,      \* which baseline configuration the user started from
    focus,     \* the attribute the configurations and replies vary in
    tfstate,   \* the Terraform state of the resource: Absent or a model record
    last,      \* what the last handler call did (its inputs, calls, outcome)
    provider,  \* the provider: its configuration, environment and published client
    client,    \* the client the resource handler holds, and its last Configure
    conv       \* a converter call taken on its own: its input and its result

vars == <<kind, base, focus, tfstate, last, provider, client, conv>>

\* The longest list of roles, permissions or rate limits a configuration or a
\* reply holds.
MaxListLen == 2

(***************************************************************************)
(* Values.  A Terraform attribute value is null, unknown or known; a Go    *)
(* pointer, slice or map is nil or holds a value.                          *)
(***************************************************************************)
Null == [k |-> "null"]
Unknown == [k |-> "unknown"]
Val(v) == [k |-> "val", v |-> v]
IsNull(t) == t.k = "null"
IsUnknown(t) == t.k = "unknown"
IsKnown(t) == t.k = "val"

Nil == [k |-> "nil"]
Ptr(v) == [k |-> "ptr", v |-> v]
IsNil(p) == p.k = "nil"

Absent == [k |-> "absent"]
IsAbsent(x) == x = Absent

\* types.String.ValueStringPointer: nil for null, a pointer to "" for unknown
ValueStringPointer(t) ==
    IF IsNull(t) THEN Nil ELSE IF IsKnown(t) THEN Ptr(t.v) ELSE Ptr("")
\* types.Int64.ValueInt64Pointer: nil for null, a pointer to 0 for unknown
ValueInt64Pointer(t) ==
    IF IsNull(t) THEN Nil ELSE IF IsKnown(t) THEN Ptr(t.v) ELSE Ptr(0)
\* types.Bool.ValueBoolPointer: nil for null, a pointer to false for unknown
ValueBoolPointer(t) ==
    IF IsNull(t) THEN Nil ELSE IF IsKnown(t) THEN Ptr(t.v) ELSE Ptr(FALSE)
\* types.String.ValueString: "" unless known
ValueString(t) == IF IsKnown(t) THEN t.v ELSE ""
\* types.Int64.ValueInt64: 0 unless known
ValueInt64(t) == IF IsKnown(t) THEN t.v ELSE 0
\* types.Bool.ValueBool: false unless known
ValueBool(t) == IF IsKnown(t) THEN t.v ELSE FALSE
\* types.StringPointerValue / types.Int64PointerValue: null for nil
PointerValue(p) == IF IsNil(p) THEN Null ELSE Val(p.v)
\* len() of a Go slice or map, nil counting as empty
GoLen(s) == IF IsNil(s) THEN 0 ELSE Cardinality(DOMAIN s.v)
\* the text of a known string attribute ("" otherwise), as JSON tokens
ValueText(t) == IF IsKnown(t) THEN t.v ELSE <<>>

(***************************************************************************)
(* JSON.  A text is a sequence of tokens; the string it stands for is      *)
(* their concatenation.  A decoded object is a function from key names to  *)
(* JSON values.                                                            *)
(***************************************************************************)
JsonKeys == <<"a", "b">>
Quote(s) == CASE s = "a" -> "\"a\"" [] s = "b" -> "\"b\""
IsStringTok(t) == t \in {"\"a\"", "\"b\""}
Unquote(t) == CASE t = "\"a\"" -> "a" [] t = "\"b\"" -> "b"
IsNumberTok(t) == t \in {"1", "2"}
NumberOf(t) == CASE t = "1" -> 1 [] t = "2" -> 2
NumberTok(n) == CASE n = 1 -> "1" [] n = 2 -> "2"

JNum(n) == [t |-> "num", n |-> n]
JStr(s) == [t |-> "str", s |-> s]
JNull == [t |-> "null"]
JObj(m) == [t |-> "obj", m |-> m]
EmptyMap == [x \in {} |-> JNull]
PutKey(m, key, v) == [x \in DOMAIN m \cup {key} |-> IF x = key THEN v ELSE m[x]]

ParseFail == [ok |-> FALSE]
ParseOk(v, next) == [ok |-> TRUE, val |-> v, next |-> next]

RECURSIVE ParseValue(_, _)
RECURSIVE ParseMembers(_, _, _)
\* encoding/json: one JSON value starting at token i
ParseValue(toks, i) ==
    IF i > Len(toks) THEN ParseFail
    ELSE IF IsNumberTok(toks[i]) THEN ParseOk(JNum(NumberOf(toks[i])), i + 1)
    ELSE IF IsStringTok(toks[i]) THEN ParseOk(JStr(Unquote(toks[i])), i + 1)
    ELSE IF toks[i] = "null" THEN ParseOk(JNull, i + 1)
    ELSE IF toks[i] = "{" THEN
        IF i + 1 <= Len(toks) /\ toks[i + 1] = "}"
        THEN ParseOk(JObj(EmptyMap), i + 2)
        ELSE ParseMembers(toks, i + 1, EmptyMap)
    ELSE ParseFail

\* encoding/json: the members of an object from token i on, after "{" or ","
\* (a repeated key keeps the last value)
ParseMembers(toks, i, acc) ==
    IF i + 1 > Len(toks) THEN ParseFail
    ELSE IF ~IsStringTok(toks[i]) \/ toks[i + 1] # ":" THEN ParseFail
    ELSE LET r == ParseValue(toks, i + 2) IN
        IF ~r.ok THEN ParseFail
        ELSE IF r.next > Len(toks) THEN ParseFail
        ELSE LET m == PutKey(acc, Unquote(toks[i]), r.val) IN
            IF toks[r.next] = "}" THEN ParseOk(JObj(m), r.next + 1)
            ELSE IF toks[r.next] = "," THEN ParseMembers(toks, r.next + 1, m)
            ELSE ParseFail

\* json.Unmarshal([]byte(s), &m) with m a nil map[string]any: an error for text
\* that is not JSON or is a JSON value other than an object or null; null
\* leaves the map nil
Unmarshal(toks) ==
    LET r == ParseValue(toks, 1) IN
    IF ~r.ok \/ r.next # Len(toks) + 1 THEN [err |-> TRUE, m |-> Nil]
    ELSE IF r.val.t = "null" THEN [err |-> FALSE, m |-> Nil]
    ELSE IF r.val.t = "obj" THEN [err |-> FALSE, m |-> Ptr(r.val.m)]
    ELSE [err |-> TRUE, m |-> Nil]

RECURSIVE MarshalValue(_)
RECURSIVE MarshalMembers(_, _, _)
\* json.Marshal of one decoded value
MarshalValue(v) ==
    CASE v.t = "num" -> <<NumberTok(v.n)>>
      [] v.t = "str" -> <<Quote(v.s)>>
      [] v.t = "null" -> <<"null">>
      [] v.t = "obj" -> <<"{">> \o MarshalMembers(v.m, 1, TRUE) \o <<"}">>

\* json.Marshal of a map: its keys in sorted order
MarshalMembers(m, i, first) ==
    IF i > Len(JsonKeys) THEN <<>>
    ELSE IF JsonKeys[i] \notin DOMAIN m THEN MarshalMembers(m, i + 1, first)
    ELSE (IF first THEN <<>> ELSE <<",">>)
         \o <<Quote(JsonKeys[i]), ":">> \o MarshalValue(m[JsonKeys[i]])
         \o MarshalMembers(m, i + 1, FALSE)

\* json.Marshal of a map[string]any (nil marshals to null)
Marshal(m) == IF IsNil(m) THEN <<"null">> ELSE MarshalValue(JObj(m.v))

(***************************************************************************)
(* Framework conversions between Terraform values and Go values.           *)
(***************************************************************************)
\* types.List.ElementsAs(ctx, &[]string, false): an error diagnostic when an
\* element is null or unknown; an empty list gives an empty, non-nil slice
ElementsAsStrings(list) ==
    IF \E i \in DOMAIN list.v : ~IsKnown(list.v[i])
    THEN [err |-> TRUE, v |-> Nil]
    ELSE [err |-> FALSE, v |-> Ptr([i \in DOMAIN list.v |-> list.v[i].v])]

\* types.Object.As(ctx, &struct, ObjectAsOptions{}): an error diagnostic for a
\* null or unknown object, which a plain struct cannot hold
ObjectAsErr(obj) == ~IsKnown(obj)

\* types.ListValueFrom(ctx, types.StringType, slice): a nil slice gives a null
\* list, any other slice (an empty one too) a known list
ListValueFromStrings(s) ==
    IF IsNil(s) THEN Null ELSE Val([i \in DOMAIN s.v |-> Val(s.v[i])])

\* conversions.StringListToSlice
StringListToSlice(list) ==
    IF IsNull(list) \/ IsUnknown(list) THEN [err |-> FALSE, v |-> Nil]
    ELSE ElementsAsStrings(list)

\* a conversion that keeps an empty slice as an empty list
SliceToStringList_EmptyKept(slice) == ListValueFromStrings(slice)

\* conversions.SliceToStringList
SliceToStringList(slice) ==
    IF GoLen(slice) = 0 THEN Null ELSE ListValueFromStrings(slice)

(***************************************************************************)
(* Rate limits and credits.                                                *)
(***************************************************************************)
\* rateLimitModel{Name, Limit, Duration, AutoApply}
RateLimitModel(name, limit, duration, autoApply) ==
    Val([name |-> Val(name), limit |-> Val(limit), duration |-> Val(duration),
         auto_apply |-> Val(autoApply)])

\* components.RatelimitRequest built from one plan entry
RatelimitRequest(rl) ==
    [name |-> ValueString(rl.name), limit |-> ValueInt64(rl.limit),
     duration |-> ValueInt64(rl.duration), autoApply |-> Ptr(ValueBool(rl.auto_apply))]

\* one plan entry built from a components.RatelimitResponse
RatelimitFromResponse(rl) ==
    RateLimitModel(rl.name, rl.limit, rl.duration, rl.autoApply)

\* conversions.RatelimitsToAPI
RatelimitsToAPI(list) ==
    IF IsNull(list) \/ IsUnknown(list) THEN [err |-> FALSE, v |-> Nil]
    ELSE IF \E i \in DOMAIN list.v : ~IsKnown(list.v[i]) THEN [err |-> TRUE, v |-> Nil]
    ELSE [err |-> FALSE, v |-> Ptr([i \in DOMAIN list.v |-> RatelimitRequest(list.v[i].v)])]

\* a conversion of the reply's rate limits that gives null for a nil slice only
RatelimitsFromAPI_EmptyKept(s) ==
    IF IsNil(s) THEN Null
    ELSE Val([i \in DOMAIN s.v |-> RatelimitFromResponse(s.v[i])])

\* a conversion of the reply's rate limits that reverses their order
RatelimitsFromAPI_Reversed(s) ==
    IF GoLen(s) = 0 THEN Null
    ELSE Val([i \in DOMAIN s.v |-> RatelimitFromResponse(s.v[Len(s.v) + 1 - i])])

\* conversions.RatelimitsFromAPI
RatelimitsFromAPI(s) ==
    IF GoLen(s) = 0 THEN Null
    ELSE Val([i \in DOMAIN s.v |-> RatelimitFromResponse(s.v[i])])

\* keyCreditsRefillModel -> components.KeyCreditsRefill
RefillToAPI(refill) ==
    [interval |-> ValueString(refill.interval), amount |-> ValueInt64(refill.amount),
     refillDay |-> ValueInt64Pointer(refill.refill_day)]

\* a conversion of the reply's credits that makes up a refill_day of 0
CreditsFromAPI_RefillDayMadeUp(credits) ==
    IF IsNil(credits) THEN Null
    ELSE Val([remaining |-> PointerValue(credits.v.remaining),
              refill |-> IF IsNil(credits.v.refill) THEN Null
                         ELSE Val([interval |-> Val(credits.v.refill.v.interval),
                                   amount |-> Val(credits.v.refill.v.amount),
                                   refill_day |->
                                       IF IsNil(credits.v.refill.v.refillDay) THEN Val(0)
                                       ELSE Val(credits.v.refill.v.refillDay.v)])])

\* components.KeyCreditsData -> the credits object of the plan
CreditsFromAPI(credits) ==
    IF IsNil(credits) THEN Null
    ELSE Val([remaining |-> PointerValue(credits.v.remaining),
              refill |-> IF IsNil(credits.v.refill) THEN Null
                         ELSE Val([interval |-> Val(credits.v.refill.v.interval),
                                   amount |-> Val(credits.v.refill.v.amount),
                                   refill_day |-> PointerValue(credits.v.refill.v.refillDay)])])

\* a conversion that gives no mapping and no error for a text that does not parse
StringToMap_ErrorSwallowed(str) ==
    IF IsNull(str) \/ IsUnknown(str) THEN [err |-> FALSE, m |-> Nil]
    ELSE [err |-> FALSE, m |-> Unmarshal(ValueText(str)).m]

\* conversions.StringToMap
StringToMap(str) ==
    IF IsNull(str) \/ IsUnknown(str) THEN [err |-> FALSE, m |-> Nil]
    ELSE Unmarshal(ValueText(str))

\* a conversion that gives null for a nil map only, and "{}" for an empty one
MapToString_EmptyBraces(m) == IF IsNil(m) THEN Null ELSE Val(Marshal(m))

\* conversions.MapToString
MapToString(m) == IF GoLen(m) = 0 THEN Null ELSE Val(Marshal(m))

(***************************************************************************)
(* The resource kinds, their attributes, and the values configurations and *)
(* remote replies are drawn from.                                          *)
(***************************************************************************)
Kinds == {"api", "key", "role", "permission", "identity"}
Bases == {"full", "empty"}
Ids == {"id_1"}
Times == {"t1", "t2"}

MetaEmpty == <<"{", "}">>
MetaA == <<"{", "\"a\"", ":", "1", "}">>
MetaBA == <<"{", "\"b\"", ":", "2", ",", "\"a\"", ":", "1", "}">>
MetaBad == <<"{", "\"a\"">>
MetaTexts == {MetaEmpty, MetaA, MetaBA, MetaBad}
MetaMaps == {EmptyMap, [a |-> JNum(1)], [a |-> JNum(1), b |-> JNum(2)]}

\* the lists of at most MaxListLen elements that are prefixes of all
Prefixes(all) ==
    {SubSeq(all, 1, n) :
        n \in 0..(IF MaxListLen < Len(all) THEN MaxListLen ELSE Len(all))}

RL1 == RateLimitModel("rl1", 10, 1000, TRUE)
RL2 == RateLimitModel("rl2", 20, 2000, FALSE)
RL3 == RateLimitModel("rl3", 30, 3000, TRUE)
RatelimitLists == Prefixes(<<RL2, RL1, RL3>>)
RLResp1 == [id |-> "rl_1", name |-> "rl1", limit |-> 10, duration |-> 1000, autoApply |-> TRUE]
RLResp2 == [id |-> "rl_2", name |-> "rl2", limit |-> 20, duration |-> 2000, autoApply |-> FALSE]
RLResp3 == [id |-> "rl_3", name |-> "rl3", limit |-> 30, duration |-> 3000, autoApply |-> TRUE]
RatelimitReplies == {Nil} \cup {Ptr(l) : l \in Prefixes(<<RLResp2, RLResp1, RLResp3>>)}
RoleLists == Prefixes(<<Val("r2"), Val("r1"), Val("r3")>>) \cup {<<Val("r1")>>, <<Null>>}
RoleReplies == {Nil} \cup {Ptr(l) : l \in Prefixes(<<"r2", "r1", "r3">>) \cup {<<"r1">>}}
PermissionLists == Prefixes(<<Val("p1"), Val("p2"), Val("p3")>>)
PermissionReplies == {Nil} \cup {Ptr(l) : l \in Prefixes(<<"p1", "p2", "p3">>)}

RefillDay == Val([interval |-> Val("monthly"), amount |-> Val(5), refill_day |-> Val(1)])
RefillNoDay == Val([interval |-> Val("daily"), amount |-> Val(5), refill_day |-> Null])
CreditsObjects ==
    {Val([remaining |-> Val(10), refill |-> r]) : r \in {Null, RefillNoDay, RefillDay}}
CreditsReplies ==
    {Nil} \cup
    {Ptr([remaining |-> Ptr(10), refill |-> r]) :
        r \in {Nil, Ptr([interval |-> "daily", amount |-> 5, refillDay |-> Nil]),
               Ptr([interval |-> "monthly", amount |-> 5, refillDay |-> Ptr(1)])}}

\* keyResourceModel: the attributes a Key configuration sets, and the computed ones
KeyConfigAttrs ==
    {"api_id", "prefix", "name", "byte_length", "external_id", "meta", "roles",
     "permissions", "expires", "credits", "ratelimits", "enabled", "recoverable",
     "permanent_deletion"}

KeyBase(b) ==
    IF b = "full" THEN
        [id |-> Unknown, key |-> Unknown, last_updated |-> Unknown,
         api_id |-> Val("api_1"), prefix |-> Val("pre"), name |-> Val("name_1"),
         byte_length |-> Val(32), external_id |-> Val("user_1"), meta |-> Val(MetaA),
         roles |-> Val(<<Val("r1")>>), permissions |-> Val(<<Val("p1")>>),
         expires |-> Val(1000),
         credits |-> Val([remaining |-> Val(10), refill |-> RefillDay]),
         ratelimits |-> Val(<<RL2>>), enabled |-> Val(TRUE),
         recoverable |-> Val(FALSE), permanent_deletion |-> Val(TRUE)]
    ELSE
        [id |-> Unknown, key |-> Unknown, last_updated |-> Unknown,
         api_id |-> Val("api_1"), prefix |-> Null, name |-> Null,
         byte_length |-> Val(32), external_id |-> Null, meta |-> Null,
         roles |-> Null, permissions |-> Null, expires |-> Null, credits |-> Null,
         ratelimits |-> Null, enabled |-> Null, recoverable |-> Null,
         permanent_deletion |-> Null]

KeyConfigDom(a) ==
    CASE a = "name" -> {Null, Val("name_1"), Val("name_2")}
      [] a = "enabled" -> {Null, Val(TRUE), Val(FALSE)}
      [] a = "expires" -> {Null, Val(1000), Val(2000)}
      [] a = "meta" -> {Null} \cup {Val(t) : t \in MetaTexts}
      [] a = "roles" -> {Null} \cup {Val(l) : l \in RoleLists}
      [] a = "permissions" -> {Null} \cup {Val(l) : l \in PermissionLists}
      [] a = "credits" -> {Null} \cup CreditsObjects
      [] a = "ratelimits" -> {Null} \cup {Val(l) : l \in RatelimitLists}
      [] a = "external_id" -> {Null, Val("user_1"), Val("user_2")}
      [] a = "permanent_deletion" -> {Null, Val(TRUE), Val(FALSE)}

\* the data of a get-key reply
KeyReplyBase(b) ==
    IF b = "full" THEN
        [name |-> Ptr("name_1"), enabled |-> TRUE, expires |-> Ptr(1000),
         permissions |-> Ptr(<<"p1">>), roles |-> Ptr(<<"r1">>),
         meta |-> Ptr([a |-> JNum(1)]),
         credits |-> Ptr([remaining |-> Ptr(10),
                          refill |-> Ptr([interval |-> "monthly", amount |-> 5,
                                          refillDay |-> Ptr(1)])]),
         ratelimits |-> Ptr(<<RLResp2>>), identity |-> Ptr([externalId |-> "user_1"]),
         plaintext |-> Nil]
    ELSE
        [name |-> Nil, enabled |-> TRUE, expires |-> Nil, permissions |-> Nil,
         roles |-> Nil, meta |-> Nil, credits |-> Nil, ratelimits |-> Nil,
         identity |-> Nil, plaintext |-> Nil]

KeyReplyDom(a) ==
    CASE a = "name" -> {Nil, Ptr("name_1"), Ptr("name_2")}
      [] a = "enabled" -> {TRUE, FALSE}
      [] a = "expires" -> {Nil, Ptr(1000), Ptr(2000)}
      [] a = "meta" -> {Nil} \cup {Ptr(m) : m \in MetaMaps}
      [] a = "roles" -> RoleReplies
      [] a = "permissions" -> PermissionReplies
      [] a = "credits" -> CreditsReplies
      [] a = "ratelimits" -> RatelimitReplies
      [] a = "identity" -> {Nil, Ptr([externalId |-> "user_1"]), Ptr([externalId |-> "user_2"])}
      [] a = "plaintext" -> {Nil, Ptr("sk_2")}

(***************************************************************************)
(* Key: the requests the handlers build and the state they write.          *)
(***************************************************************************)
Secrets == {"sk_1"}

\* a Key handler that goes on after an error of the unmarshalling of meta
KeyMetaRequest_ErrorDropped(plan) ==
    IF ~IsNull(plan.meta)
    THEN [err |-> FALSE, m |-> Unmarshal(ValueText(plan.meta)).m]
    ELSE [err |-> FALSE, m |-> Nil]

\* keyResource.Create and Update: a known meta is unmarshalled into the
\* request, and an error of the unmarshalling ends the handler
KeyMetaRequest(plan) ==
    IF ~IsNull(plan.meta) THEN Unmarshal(ValueText(plan.meta))
    ELSE [err |-> FALSE, m |-> Nil]

\* keyResource.Create, up to the remote call: the request body, whether an
\* error diagnostic was recorded, and whether the handler returned early
KeyCreateRequest(plan) ==
    LET rolesR == IF IsKnown(plan.roles) THEN ElementsAsStrings(plan.roles)
                  ELSE [err |-> FALSE, v |-> Nil]
        d1 == rolesR.err
        roles == IF IsKnown(plan.roles) /\ ~d1 THEN rolesR.v ELSE Nil
        permsR == IF IsKnown(plan.permissions) THEN ElementsAsStrings(plan.permissions)
                  ELSE [err |-> FALSE, v |-> Nil]
        d2 == d1 \/ permsR.err
        perms == IF IsKnown(plan.permissions) /\ ~d2 THEN permsR.v ELSE Nil
        inCredits == IsKnown(plan.credits) /\ ~d2
        d3 == IF inCredits THEN d2 \/ ObjectAsErr(plan.credits.v.refill) ELSE d2
        refillData == IF inCredits /\ ~d3
                      THEN Ptr(RefillToAPI(plan.credits.v.refill.v)) ELSE Nil
        credits == IF inCredits
                   THEN Ptr([remaining |-> ValueInt64Pointer(plan.credits.v.remaining),
                             refill |-> refillData])
                   ELSE Nil
        metaR == KeyMetaRequest(plan)
    IN  [abort |-> metaR.err,
         err |-> d3 \/ metaR.err,
         req |-> [apiId |-> ValueString(plan.api_id),
                  prefix |-> ValueStringPointer(plan.prefix),
                  name |-> ValueStringPointer(plan.name),
                  byteLength |-> ValueInt64Pointer(plan.byte_length),
                  externalId |-> ValueStringPointer(plan.external_id),
                  expires |-> ValueInt64Pointer(plan.expires),
                  enabled |-> ValueBoolPointer(plan.enabled),
                  recoverable |-> ValueBoolPointer(plan.recoverable),
                  roles |-> roles, permissions |-> perms, credits |-> credits,
                  meta |-> metaR.m]]

\* keyResource.Create, after the remote call: the plan with the computed
\* attributes filled in from the reply
KeyCreateState(plan, id, secret, now) ==
    [plan EXCEPT !.id = Val(id), !.key = Val(secret), !.last_updated = Val(now)]

\* keyResource.Read: the dereference of the reply's name panics when it is nil
KeyReadPanics(resp) == IsNil(resp.name)

\* keyResource.Read: the state with the reply written over it
KeyReadState(state, resp) ==
    [state EXCEPT
        !.name = Val(resp.name.v),
        !.enabled = Val(resp.enabled),
        !.expires = PointerValue(resp.expires),
        !.permissions = ListValueFromStrings(resp.permissions),
        !.roles = ListValueFromStrings(resp.roles),
        !.meta = IF ~IsNil(resp.meta) THEN Val(Marshal(resp.meta)) ELSE Null,
        !.credits = CreditsFromAPI(resp.credits),
        !.ratelimits = RatelimitsFromAPI(resp.ratelimits),
        !.external_id = IF ~IsNil(resp.identity) THEN Val(resp.identity.v.externalId)
                        ELSE Null]

\* keyResource.Update, roles and permissions: a changed list is converted into
\* the request, a list changed to null becomes the empty list, and an unchanged
\* list leaves the field unset; hadErr tells whether a diagnostic was recorded
\* before
KeyUpdateStrings(stateList, planList, hadErr) ==
    IF planList = stateList THEN [err |-> hadErr, v |-> Nil]
    ELSE IF IsKnown(planList)
    THEN LET r == ElementsAsStrings(planList)
         IN  [err |-> hadErr \/ r.err,
              v |-> IF ~(hadErr \/ r.err) THEN r.v ELSE Nil]
    ELSE [err |-> hadErr, v |-> Ptr(<<>>)]

\* keyResource.Update, up to the remote call: the request body, whether an
\* error diagnostic was recorded, and whether the handler returned early
KeyUpdateRequest(state, plan) ==
    LET name == IF plan.name # state.name /\ ~IsNull(plan.name)
                THEN ValueStringPointer(plan.name) ELSE Nil
        enabled == IF plan.enabled # state.enabled /\ ~IsNull(plan.enabled)
                   THEN ValueBoolPointer(plan.enabled) ELSE Nil
        expires == IF plan.expires # state.expires
                   THEN ValueInt64Pointer(plan.expires) ELSE Nil
        metaR == KeyMetaRequest(plan)
        rolesR == KeyUpdateStrings(state.roles, plan.roles, FALSE)
        d1 == rolesR.err
        roles == rolesR.v
        permsR == KeyUpdateStrings(state.permissions, plan.permissions, d1)
        d2 == permsR.err
        perms == permsR.v
        inCredits == plan.credits # state.credits /\ IsKnown(plan.credits) /\ ~d2
        refillKnown == inCredits /\ IsKnown(plan.credits.v.refill)
        credits == IF inCredits
                   THEN Ptr([remaining |-> ValueInt64Pointer(plan.credits.v.remaining),
                             refill |-> IF refillKnown
                                        THEN Ptr(RefillToAPI(plan.credits.v.refill.v))
                                        ELSE Nil])
                   ELSE Nil
        rlCh == plan.ratelimits # state.ratelimits
        rlR == IF rlCh /\ IsKnown(plan.ratelimits) THEN RatelimitsToAPI(plan.ratelimits)
               ELSE [err |-> FALSE, v |-> Nil]
        d3 == d2 \/ rlR.err
        ratelimits == IF ~rlCh THEN Nil
                      ELSE IF IsKnown(plan.ratelimits) THEN (IF ~d3 THEN rlR.v ELSE Nil)
                      ELSE Ptr(<<>>)
    IN  [abort |-> metaR.err,
         err |-> metaR.err \/ d3,
         req |-> [keyId |-> ValueString(state.id), name |-> name, enabled |-> enabled,
                  expires |-> expires, meta |-> metaR.m, roles |-> roles,
                  permissions |-> perms, credits |-> credits,
                  ratelimits |-> ratelimits]]

\* keyResource.Update, after the re-read: the plan with the reply written over it
KeyUpdateState(plan, resp, now) ==
    [plan EXCEPT
        !.name = PointerValue(resp.name),
        !.enabled = Val(resp.enabled),
        !.expires = PointerValue(resp.expires),
        !.permissions = ListValueFromStrings(resp.permissions),
        !.roles = ListValueFromStrings(resp.roles),
        !.meta = IF ~IsNil(resp.meta) THEN Val(Marshal(resp.meta)) ELSE Null,
        !.credits = CreditsFromAPI(resp.credits),
        !.ratelimits = RatelimitsFromAPI(resp.ratelimits),
        !.last_updated = Val(now)]

\* a Key Delete that always asks for the permanent deletion
KeyDeleteRequest_AlwaysPermanent(state) ==
    [keyId |-> ValueString(state.id), permanent |-> Ptr(TRUE)]

\* keyResource.Delete: the request body
KeyDeleteRequest(state) ==
    [keyId |-> ValueString(state.id),
     permanent |-> Ptr(ValueBool(state.permanent_deletion))]

(***************************************************************************)
(* API, Role, Permission and Identity.                                     *)
(***************************************************************************)
ApiBase == [id |-> Unknown, name |-> Val("name_1")]
ApiReplyBase == [id |-> "", name |-> "name_1"]
RoleBase(b) ==
    [id |-> Unknown, name |-> Val("name_1"),
     description |-> IF b = "full" THEN Val("d1") ELSE Null]
RoleReplyBase(b) ==
    [id |-> "", name |-> "name_1", description |-> IF b = "full" THEN Ptr("d1") ELSE Nil]
PermissionBase(b) ==
    [id |-> Unknown, name |-> Val("name_1"), slug |-> Val("s1"),
     description |-> IF b = "full" THEN Val("d1") ELSE Null]
PermissionReplyBase(b) ==
    [id |-> "", name |-> "name_1", slug |-> "s1",
     description |-> IF b = "full" THEN Ptr("d1") ELSE Nil]
IdentityBase(b) ==
    [id |-> Unknown, external_id |-> Val("user_1"),
     meta |-> IF b = "full" THEN Val(MetaA) ELSE Null,
     ratelimits |-> IF b = "full" THEN Val(<<RL2>>) ELSE Null]
IdentityReplyBase(b) ==
    [id |-> "", external_id |-> "user_1",
     meta |-> IF b = "full" THEN Ptr([a |-> JNum(1)]) ELSE Nil,
     ratelimits |-> IF b = "full" THEN Ptr(<<RLResp2>>) ELSE Nil]

\* the optional description of a Role or Permission as the request carries it
DescriptionPointer(t) == IF ~IsNull(t) THEN Ptr(ValueString(t)) ELSE Nil

\* apiResource.Create
ApiCreateRequest(plan) ==
    [abort |-> FALSE, err |-> FALSE, req |-> [name |-> ValueString(plan.name)]]
\* apiResource.Read
ApiReadState(state, resp) == [state EXCEPT !.name = Val(resp.name)]

\* roleResource.Create
RoleCreateRequest(plan) ==
    [abort |-> FALSE, err |-> FALSE,
     req |-> [name |-> ValueString(plan.name),
              description |-> DescriptionPointer(plan.description)]]
\* roleResource.Read
RoleReadState(state, resp) ==
    [state EXCEPT !.name = Val(resp.name),
                  !.description = PointerValue(resp.description)]

\* permissionResource.Create
PermissionCreateRequest(plan) ==
    [abort |-> FALSE, err |-> FALSE,
     req |-> [name |-> ValueString(plan.name), slug |-> ValueString(plan.slug),
              description |-> DescriptionPointer(plan.description)]]
\* a Permission Read that writes an absent description as the empty string
PermissionReadState_EmptyDescription(state, resp) ==
    [state EXCEPT !.name = Val(resp.name), !.slug = Val(resp.slug),
                  !.description = IF IsNil(resp.description) THEN Val("")
                                  ELSE Val(resp.description.v)]

\* permissionResource.Read
PermissionReadState(state, resp) ==
    [state EXCEPT !.name = Val(resp.name), !.slug = Val(resp.slug),
                  !.description = PointerValue(resp.description)]

\* identityResource.Create, up to the remote call: conversion errors are
\* recorded and the handler goes on
IdentityCreateRequest(plan) ==
    LET metaR == StringToMap(plan.meta)
        rlR == RatelimitsToAPI(plan.ratelimits)
    IN  [abort |-> FALSE, err |-> metaR.err \/ rlR.err,
         req |-> [externalId |-> ValueString(plan.external_id), meta |-> metaR.m,
                  ratelimits |-> rlR.v]]

\* identityResource.Read
IdentityReadState(state, resp) ==
    [state EXCEPT !.external_id = Val(resp.external_id),
                  !.meta = MapToString(resp.meta),
                  !.ratelimits = RatelimitsFromAPI(resp.ratelimits)]

\* identityResource.Update, up to the remote call: conversion errors end it
IdentityUpdateRequest(state, plan) ==
    LET metaR == StringToMap(plan.meta)
        rlR == RatelimitsToAPI(plan.ratelimits)
    IN  [abort |-> metaR.err \/ rlR.err, err |-> metaR.err \/ rlR.err,
         req |-> [identity |-> ValueString(state.id), meta |-> metaR.m,
                  ratelimits |-> rlR.v]]

\* identityResource.Update, after the re-read: the plan is what is written,
\* with only external_id taken from the reply
IdentityUpdateState(plan, resp) ==
    [plan EXCEPT !.external_id = Val(resp.external_id)]

(***************************************************************************)
(* The schemas: which attributes a configuration sets, and which of them   *)
(* carry the RequiresReplace plan modifier.                                *)
(***************************************************************************)
SettableAttrs(k) ==
    CASE k = "api" -> {"name"}
      [] k = "role" -> {"name", "description"}
      [] k = "permission" -> {"name", "slug", "description"}
      [] k = "identity" -> {"external_id", "meta", "ratelimits"}
      [] k = "key" -> KeyConfigAttrs

RequiresReplace(k) ==
    CASE k = "api" -> {}
      [] k = "role" -> {}
      [] k = "permission" -> {"name", "slug", "description"}
      [] k = "identity" -> {}
      [] k = "key" -> {}

\* the attributes a behaviour's configurations and replies may vary in
FocusAttrs(k) ==
    CASE k = "api" -> {"name"}
      [] k = "role" -> {"name", "description"}
      [] k = "permission" -> {"name", "slug", "description"}
      [] k = "identity" -> {"external_id", "meta", "ratelimits"}
      [] k = "key" -> {"name", "enabled", "expires", "meta", "roles", "permissions",
                       "credits", "ratelimits", "external_id", "permanent_deletion",
                       "plaintext"}

\* the field of the reply that carries an attribute
ReplyAttr(k, a) == IF k = "key" /\ a = "external_id" THEN "identity" ELSE a

BaseConfig(k, b) ==
    CASE k = "api" -> ApiBase
      [] k = "role" -> RoleBase(b)
      [] k = "permission" -> PermissionBase(b)
      [] k = "identity" -> IdentityBase(b)
      [] k = "key" -> KeyBase(b)

ReplyBase(k, b) ==
    CASE k = "api" -> ApiReplyBase
      [] k = "role" -> RoleReplyBase(b)
      [] k = "permission" -> PermissionReplyBase(b)
      [] k = "identity" -> IdentityReplyBase(b)
      [] k = "key" -> [id |-> ""] @@ KeyReplyBase(b)

ConfigDom(k, a) ==
    CASE k = "key" -> KeyConfigDom(a)
      [] k # "key" /\ a = "name" -> {Val("name_1"), Val("name_2")}
      [] k # "key" /\ a = "slug" -> {Val("s1"), Val("s2")}
      [] k # "key" /\ a = "description" -> {Null, Val("d1"), Val("d2")}
      [] k # "key" /\ a = "external_id" -> {Val("user_1"), Val("user_2")}
      [] k # "key" /\ a = "meta" -> {Null} \cup {Val(t) : t \in MetaTexts}
      [] k # "key" /\ a = "ratelimits" -> {Null} \cup {Val(l) : l \in RatelimitLists}

ReplyDom(k, a) ==
    CASE k = "key" -> KeyReplyDom(a)
      [] k # "key" /\ a = "name" -> {"name_1", "name_2"}
      [] k # "key" /\ a = "slug" -> {"s1", "s2"}
      [] k # "key" /\ a = "description" -> {Nil, Ptr("d1"), Ptr("d2")}
      [] k # "key" /\ a = "external_id" -> {"user_1", "user_2"}
      [] k # "key" /\ a = "meta" -> {Nil} \cup {Ptr(m) : m \in MetaMaps}
      [] k # "key" /\ a = "ratelimits" -> RatelimitReplies

\* the values the attributes other than the focus have in a configuration: the
\* baseline, and for a Key whose permissions vary also the baseline with a
\* roles list that holds a null element (its conversion records an error
\* before the permissions are converted)
ConfigBases ==
    IF kind = "key" /\ focus = "permissions"
    THEN {KeyBase(base), [KeyBase(base) EXCEPT !.roles = Val(<<Null>>)]}
    ELSE {BaseConfig(kind, base)}

\* the configurations the user may write in this behaviour
Configs ==
    IF focus \in SettableAttrs(kind)
    THEN {[b EXCEPT ![focus] = v] : b \in ConfigBases, v \in ConfigDom(kind, focus)}
    ELSE ConfigBases

\* the replies the service may give to a get call for id in this behaviour
Replies(id) ==
    LET b == [ReplyBase(kind, base) EXCEPT !.id = id]
        f == ReplyAttr(kind, focus)
    IN  IF f \in DOMAIN b THEN {[b EXCEPT ![f] = v] : v \in ReplyDom(kind, f)}
        ELSE {b}

(***************************************************************************)
(* The handlers, by resource kind.                                         *)
(***************************************************************************)
CreateCall(k) ==
    CASE k = "api" -> "CreateAPI" [] k = "role" -> "CreateRole"
      [] k = "permission" -> "CreatePermission" [] k = "identity" -> "CreateIdentity"
      [] k = "key" -> "CreateKey"
GetCall(k) ==
    CASE k = "api" -> "GetAPI" [] k = "role" -> "GetRole"
      [] k = "permission" -> "GetPermission" [] k = "identity" -> "GetIdentity"
      [] k = "key" -> "GetKey"
UpdateCall(k) ==
    CASE k = "identity" -> "UpdateIdentity" [] k = "key" -> "UpdateKey"
DeleteCall(k) ==
    CASE k = "api" -> "DeleteAPI" [] k = "role" -> "DeleteRole"
      [] k = "permission" -> "DeletePermission" [] k = "identity" -> "DeleteIdentity"
      [] k = "key" -> "DeleteKey"

\* Create, up to the remote call
CreateBuild(k, plan) ==
    CASE k = "api" -> ApiCreateRequest(plan)
      [] k = "role" -> RoleCreateRequest(plan)
      [] k = "permission" -> PermissionCreateRequest(plan)
      [] k = "identity" -> IdentityCreateRequest(plan)
      [] k = "key" -> KeyCreateRequest(plan)

\* a Create that does not write the identifier of the reply
CreatedState_IdNotWritten(k, plan, id, secret, now) ==
    IF k = "key" THEN [plan EXCEPT !.key = Val(secret), !.last_updated = Val(now)]
    ELSE plan

\* Create, after the remote call: the state written
CreatedState(k, plan, id, secret, now) ==
    IF k = "key" THEN KeyCreateState(plan, id, secret, now)
    ELSE [plan EXCEPT !.id = Val(id)]

\* the request of a get or delete call of the kinds that send the id alone
IdRequest(state) == [id |-> ValueString(state.id)]

\* Read: whether writing the reply over the state panics
ReadPanics(k, resp) == k = "key" /\ KeyReadPanics(resp)

\* Read: the state written
ReadState(k, state, resp) ==
    CASE k = "api" -> ApiReadState(state, resp)
      [] k = "role" -> RoleReadState(state, resp)
      [] k = "permission" -> PermissionReadState(state, resp)
      [] k = "identity" -> IdentityReadState(state, resp)
      [] k = "key" -> KeyReadState(state, resp)

\* a plan whose id is not kept from the prior state
PlanForUpdate_IdNotKept(k, cfg, state) ==
    IF k = "key" THEN [cfg EXCEPT !.key = state.key] ELSE cfg

\* a plan whose key is not kept from the prior state
PlanForUpdate_KeyNotKept(k, cfg, state) == [cfg EXCEPT !.id = state.id]

\* the plan of an update: the configuration, with the computed attributes that
\* carry UseStateForUnknown taken from the prior state
PlanForUpdate(k, cfg, state) ==
    IF k = "key" THEN [cfg EXCEPT !.id = state.id, !.key = state.key]
    ELSE [cfg EXCEPT !.id = state.id]

\* the attributes in which a configuration differs from the state
Changed(k, cfg, state) == {a \in SettableAttrs(k) : cfg[a] # state[a]}

\* the host calls Update when the configuration differs from the state in no
\* attribute that requires replacement
UpdateCalled(k, cfg, state) ==
    /\ Changed(k, cfg, state) # {}
    /\ Changed(k, cfg, state) \cap RequiresReplace(k) = {}

\* Update, up to the remote call
UpdateBuild(k, state, plan) ==
    IF k = "key" THEN KeyUpdateRequest(state, plan)
    ELSE IdentityUpdateRequest(state, plan)

\* Update, after the re-read: the state written
UpdatedState(k, plan, resp, now) ==
    IF k = "key" THEN KeyUpdateState(plan, resp, now)
    ELSE IdentityUpdateState(plan, resp)

\* Delete: the request body
DeleteRequest(k, state) ==
    IF k = "key" THEN KeyDeleteRequest(state) ELSE IdRequest(state)

(***************************************************************************)
(* The state machine.                                                      *)
(***************************************************************************)
\* a remote call: the SDK function, the request, and "ok" or "error" (the SDK
\* returned an error, whatever the cause: transport, status, entity not found)
Call(fn, req, res) == [fn |-> fn, req |-> req, res |-> res]

\* what a handler call left behind: its inputs, the remote calls it made, and
\* whether it recorded an error diagnostic, panicked, or wrote state
Outcome(op, prior, plan, calls, err, panic, wrote, resp) ==
    [op |-> op, prior |-> prior, plan |-> plan, calls |-> calls, err |-> err,
     panic |-> panic, wrote |-> wrote, resp |-> resp]

(***************************************************************************)
(* The provider and the configuration of the resource handlers.            *)
(***************************************************************************)
\* the values of root_key in the provider block, and of UNKEY_ROOT_KEY in the
\* environment ("" when it is not set)
RootKeys == {Null, Unknown, Val(""), Val("rk_1")}
EnvKeys == {"", "ek_1", "ek_2"}

\* unkey.New(unkey.WithSecurity(rootKey))
NewClient(rootKey) == [security |-> rootKey]

\* the provider data a resource's Configure is given: none, a client of type
\* *unkey.Unkey, or a value of another type
NoData == [type |-> "nil"]
ClientData(c) == [type |-> "*unkey.Unkey", v |-> c]
OtherData == [type |-> "string"]

\* a provider Configure in which the environment takes precedence
ProviderConfigure_EnvFirst(rootKey, env) ==
    LET resolved == IF env # "" THEN env ELSE ValueString(rootKey)
    IN  IF IsUnknown(rootKey) THEN [err |-> TRUE, data |-> NoData]
        ELSE IF resolved = "" THEN [err |-> TRUE, data |-> NoData]
        ELSE [err |-> FALSE, data |-> ClientData(NewClient(resolved))]

\* unkeyProvider.Configure: the credential it resolves, whether it records an
\* error diagnostic, and the resource data it publishes
ProviderConfigure(rootKey, env) ==
    LET resolved == IF ~IsNull(rootKey) THEN ValueString(rootKey) ELSE env
    IN  IF IsUnknown(rootKey) THEN [err |-> TRUE, data |-> NoData]
        ELSE IF resolved = "" THEN [err |-> TRUE, data |-> NoData]
        ELSE [err |-> FALSE, data |-> ClientData(NewClient(resolved))]

\* unkeyProvider.Resources: the kinds whose constructor the provider registers
Resources == {"api"}

\* a resource Configure that drops its client when the data has another type
ResourceConfigure_WrongTypeClears(stored, data) ==
    IF data = NoData THEN [client |-> stored, err |-> FALSE]
    ELSE IF data.type # "*unkey.Unkey" THEN [client |-> Nil, err |-> TRUE]
    ELSE [client |-> Ptr(data.v), err |-> FALSE]

\* Configure of a resource handler that holds stored and is given data: the
\* client it holds afterwards, and whether it records an error diagnostic
ResourceConfigure(stored, data) ==
    IF data = NoData THEN [client |-> stored, err |-> FALSE]
    ELSE IF data.type # "*unkey.Unkey" THEN [client |-> stored, err |-> TRUE]
    ELSE [client |-> Ptr(data.v), err |-> FALSE]

\* the provider before and after a call of its Configure
ProviderNew == [done |-> FALSE, rootKey |-> Null, env |-> "", err |-> FALSE, data |-> NoData]
ProviderAfter(rootKey, env) ==
    [done |-> TRUE, rootKey |-> rootKey, env |-> env,
     err |-> ProviderConfigure(rootKey, env).err,
     data |-> ProviderConfigure(rootKey, env).data]

\* the resource handler before and after a call of its Configure
HandlerNew == [client |-> Nil, given |-> NoData, prior |-> Nil, err |-> FALSE, done |-> FALSE]
HandlerAfter(stored, data) ==
    [client |-> ResourceConfigure(stored, data).client, given |-> data, prior |-> stored,
     err |-> ResourceConfigure(stored, data).err, done |-> TRUE]

\* no converter call taken on its own
ConvNone == [fn |-> "none"]

\* the state in which the resource handlers serve requests: the provider is
\* configured and the handler holds the client it published
Init ==
    /\ kind \in Kinds
    /\ base \in Bases
    /\ focus \in FocusAttrs(kind)
    /\ tfstate = Absent
    /\ last = Outcome("none", Absent, Absent, <<>>, FALSE, FALSE, FALSE, Absent)
    /\ provider = ProviderAfter(Val("rk_1"), "")
    /\ client = HandlerAfter(Nil, provider.data)
    /\ conv = ConvNone

\* Create returns before the remote call
CreateAborted ==
    /\ IsAbsent(tfstate)
    /\ \E plan \in Configs :
        /\ CreateBuild(kind, plan).abort
        /\ last' = Outcome("Create", tfstate, plan, <<>>, TRUE, FALSE, FALSE, Absent)
    /\ UNCHANGED <<kind, base, focus, tfstate, provider, client, conv>>

\* a Create that sets the state although its remote call failed
CreateFailed_StateWritten ==
    /\ IsAbsent(tfstate)
    /\ \E plan \in Configs, id \in Ids, secret \in Secrets, now \in Times :
        LET b == CreateBuild(kind, plan) IN
        /\ ~b.abort
        /\ tfstate' = CreatedState(kind, plan, id, secret, now)
        /\ last' = Outcome("Create", tfstate, plan,
                           <<Call(CreateCall(kind), b.req, "error")>>,
                           TRUE, FALSE, TRUE, Absent)
    /\ UNCHANGED <<kind, base, focus, provider, client, conv>>

\* Create's remote call fails
CreateFailed ==
    /\ IsAbsent(tfstate)
    /\ \E plan \in Configs :
        LET b == CreateBuild(kind, plan) IN
        /\ ~b.abort
        /\ last' = Outcome("Create", tfstate, plan,
                           <<Call(CreateCall(kind), b.req, "error")>>,
                           TRUE, FALSE, FALSE, Absent)
    /\ UNCHANGED <<kind, base, focus, tfstate, provider, client, conv>>

\* Create's remote call succeeds and the state is set
CreateDone ==
    /\ IsAbsent(tfstate)
    /\ \E plan \in Configs, id \in Ids, secret \in Secrets, now \in Times :
        LET b == CreateBuild(kind, plan) IN
        /\ ~b.abort
        /\ tfstate' = CreatedState(kind, plan, id, secret, now)
        /\ last' = Outcome("Create", tfstate, plan,
                           <<Call(CreateCall(kind), b.req, "ok")>>,
                           b.err, FALSE, TRUE, Absent)
    /\ UNCHANGED <<kind, base, focus, provider, client, conv>>

\* a Read that removes the resource from the state when its get call fails
ReadFailed_ResourceRemoved ==
    /\ ~IsAbsent(tfstate)
    /\ tfstate' = Absent
    /\ last' = Outcome("Read", tfstate, Absent,
                       <<Call(GetCall(kind), IdRequest(tfstate), "error")>>,
                       TRUE, FALSE, FALSE, Absent)
    /\ UNCHANGED <<kind, base, focus, provider, client, conv>>

\* Read's get call fails
ReadFailed ==
    /\ ~IsAbsent(tfstate)
    /\ last' = Outcome("Read", tfstate, Absent,
                        <<Call(GetCall(kind), IdRequest(tfstate), "error")>>,
                        TRUE, FALSE, FALSE, Absent)
    /\ UNCHANGED <<kind, base, focus, tfstate, provider, client, conv>>

\* Read's get call succeeds, and writing the reply over the state panics
ReadPanicked ==
    /\ ~IsAbsent(tfstate)
    /\ \E resp \in Replies(ValueString(tfstate.id)) :
        /\ ReadPanics(kind, resp)
        /\ last' = Outcome("Read", tfstate, Absent,
                           <<Call(GetCall(kind), IdRequest(tfstate), "ok")>>,
                           TRUE, TRUE, FALSE, resp)
    /\ UNCHANGED <<kind, base, focus, tfstate, provider, client, conv>>

\* Read's get call succeeds and the state is set
ReadDone ==
    /\ ~IsAbsent(tfstate)
    /\ \E resp \in Replies(ValueString(tfstate.id)) :
        /\ ~ReadPanics(kind, resp)
        /\ tfstate' = ReadState(kind, tfstate, resp)
        /\ last' = Outcome("Read", tfstate, Absent,
                           <<Call(GetCall(kind), IdRequest(tfstate), "ok")>>,
                           FALSE, FALSE, TRUE, resp)
    /\ UNCHANGED <<kind, base, focus, provider, client, conv>>

\* Update of an API, Role or Permission: the handler body is empty, and the
\* state stays the prior state
UpdateNoOp ==
    /\ kind \in {"api", "role", "permission"}
    /\ ~IsAbsent(tfstate)
    /\ \E cfg \in Configs :
        /\ UpdateCalled(kind, cfg, tfstate)
        /\ last' = Outcome("Update", tfstate, PlanForUpdate(kind, cfg, tfstate), <<>>,
                           FALSE, FALSE, FALSE, Absent)
    /\ UNCHANGED <<kind, base, focus, tfstate, provider, client, conv>>

\* Update of a Key or Identity returns before the remote call
UpdateAborted ==
    /\ kind \in {"key", "identity"}
    /\ ~IsAbsent(tfstate)
    /\ \E cfg \in Configs :
        LET plan == PlanForUpdate(kind, cfg, tfstate) IN
        /\ UpdateCalled(kind, cfg, tfstate)
        /\ UpdateBuild(kind, tfstate, plan).abort
        /\ last' = Outcome("Update", tfstate, plan, <<>>, TRUE, FALSE, FALSE, Absent)
    /\ UNCHANGED <<kind, base, focus, tfstate, provider, client, conv>>

\* Update's update call fails
UpdateFailed ==
    /\ kind \in {"key", "identity"}
    /\ ~IsAbsent(tfstate)
    /\ \E cfg \in Configs :
        LET plan == PlanForUpdate(kind, cfg, tfstate)
            b == UpdateBuild(kind, tfstate, plan)
        IN
        /\ UpdateCalled(kind, cfg, tfstate)
        /\ ~b.abort
        /\ last' = Outcome("Update", tfstate, plan,
                           <<Call(UpdateCall(kind), b.req, "error")>>,
                           TRUE, FALSE, FALSE, Absent)
    /\ UNCHANGED <<kind, base, focus, tfstate, provider, client, conv>>

\* Update's update call succeeds and its re-read fails
UpdateRereadFailed ==
    /\ kind \in {"key", "identity"}
    /\ ~IsAbsent(tfstate)
    /\ \E cfg \in Configs :
        LET plan == PlanForUpdate(kind, cfg, tfstate)
            b == UpdateBuild(kind, tfstate, plan)
        IN
        /\ UpdateCalled(kind, cfg, tfstate)
        /\ ~b.abort
        /\ last' = Outcome("Update", tfstate, plan,
                           <<Call(UpdateCall(kind), b.req, "ok"),
                             Call(GetCall(kind), IdRequest(tfstate), "error")>>,
                           TRUE, FALSE, FALSE, Absent)
    /\ UNCHANGED <<kind, base, focus, tfstate, provider, client, conv>>

\* Update's update call and re-read succeed and the state is set
UpdateDone ==
    /\ kind \in {"key", "identity"}
    /\ ~IsAbsent(tfstate)
    /\ \E cfg \in Configs, resp \in Replies(ValueString(tfstate.id)), now \in Times :
        LET plan == PlanForUpdate(kind, cfg, tfstate)
            b == UpdateBuild(kind, tfstate, plan)
        IN
        /\ UpdateCalled(kind, cfg, tfstate)
        /\ ~b.abort
        /\ tfstate' = UpdatedState(kind, plan, resp, now)
        /\ last' = Outcome("Update", tfstate, plan,
                           <<Call(UpdateCall(kind), b.req, "ok"),
                             Call(GetCall(kind), IdRequest(tfstate), "ok")>>,
                           b.err, FALSE, TRUE, resp)
    /\ UNCHANGED <<kind, base, focus, provider, client, conv>>

\* Delete's remote call fails: the state stays
DeleteFailed ==
    /\ ~IsAbsent(tfstate)
    /\ last' = Outcome("Delete", tfstate, Absent,
                        <<Call(DeleteCall(kind), DeleteRequest(kind, tfstate), "error")>>,
                        TRUE, FALSE, FALSE, Absent)
    /\ UNCHANGED <<kind, base, focus, tfstate, provider, client, conv>>

\* Delete's remote call succeeds: the host removes the resource from the state
DeleteDone ==
    /\ ~IsAbsent(tfstate)
    /\ tfstate' = Absent
    /\ last' = Outcome("Delete", tfstate, Absent,
                       <<Call(DeleteCall(kind), DeleteRequest(kind, tfstate), "ok")>>,
                       FALSE, FALSE, FALSE, Absent)
    /\ UNCHANGED <<kind, base, focus, provider, client, conv>>

Next ==
    \/ CreateAborted \/ CreateFailed \/ CreateDone
    \/ ReadFailed \/ ReadPanicked \/ ReadDone
    \/ UpdateNoOp \/ UpdateAborted \/ UpdateFailed \/ UpdateRereadFailed \/ UpdateDone
    \/ DeleteFailed \/ DeleteDone

Spec == Init /\ [][Next]_vars

(***************************************************************************)
(* The configuration on its own: the host configures the provider and      *)
(* hands provider data to the Configure of a resource handler.             *)
(***************************************************************************)
InitConfigure ==
    /\ kind \in Kinds
    /\ base = "full"
    /\ focus = CHOOSE a \in FocusAttrs(kind) : TRUE
    /\ tfstate = Absent
    /\ last = Outcome("none", Absent, Absent, <<>>, FALSE, FALSE, FALSE, Absent)
    /\ provider = ProviderNew
    /\ client = HandlerNew
    /\ conv = ConvNone

\* the host calls unkeyProvider.Configure
ConfigureProvider ==
    /\ \E rootKey \in RootKeys, env \in EnvKeys :
        provider' = ProviderAfter(rootKey, env)
    /\ UNCHANGED <<kind, base, focus, tfstate, last, client, conv>>

\* the host calls the Configure of the resource handler, with no data, with
\* what the provider published, or with data of another type
ConfigureResource ==
    /\ \E data \in {NoData, provider.data, OtherData} :
        client' = HandlerAfter(client.client, data)
    /\ UNCHANGED <<kind, base, focus, tfstate, last, provider, conv>>

NextConfigure == ConfigureProvider \/ ConfigureResource

SpecConfigure == InitConfigure /\ [][NextConfigure]_vars

(***************************************************************************)
(* The converters on their own: a converter is called on an input, and the *)
(* converter of the other direction on what the service echoes.            *)
(***************************************************************************)
\* the longest list a converter is called on
MaxConvLen == 2

\* the lists over S of at most n elements
ListsUpTo(S, n) == UNION {[1..m -> S] : m \in 0..n}

\* the credits objects a converter is called on
ConvRefills ==
    {Null, Unknown} \cup
    {Val([interval |-> Val(i), amount |-> Val(5), refill_day |-> d]) :
        i \in {"daily", "monthly"}, d \in {Null, Unknown, Val(1)}}
ConvCredits ==
    {Null, Unknown} \cup
    {Val([remaining |-> r, refill |-> f]) :
        r \in {Null, Unknown, Val(0), Val(10)}, f \in ConvRefills}

\* the rate-limit lists a converter is called on
ConvRatelimits ==
    {Null, Unknown, Val(<<Null>>)} \cup {Val(l) : l \in ListsUpTo({RL1, RL2}, MaxConvLen)}

\* a credits object whose remaining is known and whose refill is absent or
\* has a known interval and amount and a known or absent refill_day
KnownCredits(c) ==
    /\ IsKnown(c) /\ IsKnown(c.v.remaining) /\ ~IsUnknown(c.v.refill)
    /\ IsKnown(c.v.refill)
        => /\ IsKnown(c.v.refill.v.interval) /\ IsKnown(c.v.refill.v.amount)
           /\ ~IsUnknown(c.v.refill.v.refill_day)

\* a rate-limit list whose entries are known
KnownRatelimits(l) == IsKnown(l) /\ \A i \in DOMAIN l.v : IsKnown(l.v[i])

\* conversions.CreditsToAPI
CreditsToAPI(creditsObj) ==
    IF IsNull(creditsObj) \/ IsUnknown(creditsObj) THEN [err |-> FALSE, v |-> Nil]
    ELSE [err |-> FALSE,
          v |-> Ptr([remaining |-> ValueInt64Pointer(creditsObj.v.remaining),
                     refill |-> IF ~IsNull(creditsObj.v.refill)
                                   /\ ~IsUnknown(creditsObj.v.refill)
                                THEN Ptr(RefillToAPI(creditsObj.v.refill.v))
                                ELSE Nil])]

\* conversions.CreditsToUpdateAPI: it dereferences the result of CreditsToAPI
\* and the refill of that result, and panics when either is nil
CreditsToUpdateAPI(creditsObj) ==
    LET keyCredits == CreditsToAPI(creditsObj)
    IN  IF IsNil(keyCredits.v) THEN [panic |-> TRUE, err |-> FALSE, v |-> Nil]
        ELSE IF IsNil(keyCredits.v.v.refill) THEN [panic |-> TRUE, err |-> FALSE, v |-> Nil]
        ELSE [panic |-> FALSE, err |-> keyCredits.err,
              v |-> Ptr([remaining |-> keyCredits.v.v.remaining,
                         refill |-> Ptr(keyCredits.v.v.refill.v)])]

\* the service echoes the rate limits of a request in the same order
RatelimitEcho(reqs) ==
    IF IsNil(reqs) THEN Nil
    ELSE Ptr([i \in DOMAIN reqs.v |->
                [id |-> "rl", name |-> reqs.v[i].name, limit |-> reqs.v[i].limit,
                 duration |-> reqs.v[i].duration, autoApply |-> reqs.v[i].autoApply.v]])

\* the rate limits of a reply that RatelimitsFromAPI is called on
ConvRatelimitResponses ==
    {Nil} \cup {Ptr(l) : l \in ListsUpTo({RLResp1, RLResp2}, MaxConvLen)}

\* the metadata mappings MapToString is called on
ConvMaps ==
    {Nil} \cup
    {Ptr(m) : m \in MetaMaps \cup {[b |-> JStr("a")], [a |-> JNull],
                                  [a |-> JObj(EmptyMap)],
                                  [a |-> JObj([b |-> JNum(2)]), b |-> JStr("b")]}}

\* texts that are not JSON: cut short, without a value, with a trailing token, empty
InvalidTexts ==
    {MetaBad, <<"{", "\"a\"", ":", "}">>, <<"{", "}", "}">>, <<>>}

\* texts that are JSON objects, and the mapping each of them stands for
MetaNested == <<"{", "\"b\"", ":", "{", "\"a\"", ":", "null", "}", "}">>
MetaTwice == <<"{", "\"a\"", ":", "1", ",", "\"a\"", ":", "\"b\"", "}">>
ObjectTexts == {MetaEmpty, MetaA, MetaBA, MetaNested, MetaTwice}
ObjectOf(t) ==
    CASE t = MetaEmpty -> EmptyMap
      [] t = MetaA -> [a |-> JNum(1)]
      [] t = MetaBA -> [a |-> JNum(1), b |-> JNum(2)]
      [] t = MetaNested -> [b |-> JObj([a |-> JNull])]
      [] t = MetaTwice -> [a |-> JStr("b")]

\* the strings StringToMap is called on: the texts above and JSON values that
\* are not objects
ConvTexts ==
    {Null, Unknown} \cup
    {Val(t) : t \in InvalidTexts \cup ObjectTexts \cup {<<"1">>, <<"null">>, <<"\"a\"">>}}

\* the string lists StringListToSlice is called on, and the slices
\* SliceToStringList is called on
ConvStringLists ==
    {Null, Unknown} \cup
    {Val(l) : l \in ListsUpTo({Val("r1"), Val("r2"), Null}, MaxConvLen)}
ConvSlices == {Nil} \cup {Ptr(l) : l \in ListsUpTo({"r1", "r2"}, MaxConvLen)}

ConvCall(fn, arg) == [fn |-> fn, stage |-> "in", arg |-> arg]

InitConv ==
    /\ kind = "key"
    /\ base = "full"
    /\ focus = "credits"
    /\ tfstate = Absent
    /\ last = Outcome("none", Absent, Absent, <<>>, FALSE, FALSE, FALSE, Absent)
    /\ provider = ProviderNew
    /\ client = HandlerNew
    /\ conv \in {ConvCall("credits", c) : c \in ConvCredits}
               \cup {ConvCall("ratelimits", l) : l \in ConvRatelimits}
               \cup {ConvCall("response", r) : r \in ConvRatelimitResponses}
               \cup {ConvCall("map", m) : m \in ConvMaps}
               \cup {ConvCall("text", t) : t \in ConvTexts}
               \cup {ConvCall("strings", l) : l \in ConvStringLists}
               \cup {ConvCall("slice", s) : s \in ConvSlices}

\* CreditsToAPI is called on the credits
CallCreditsToAPI ==
    /\ conv.fn = "credits" /\ conv.stage = "in"
    /\ conv' = [fn |-> "credits", stage |-> "api", arg |-> conv.arg,
                out |-> CreditsToAPI(conv.arg)]
    /\ UNCHANGED <<kind, base, focus, tfstate, last, provider, client>>

\* CreditsFromAPI is called on the credits the service echoes
CallCreditsFromAPI ==
    /\ conv.fn = "credits" /\ conv.stage = "api" /\ ~conv.out.err
    /\ conv' = [fn |-> "credits", stage |-> "back", arg |-> conv.arg, out |-> conv.out,
                back |-> CreditsFromAPI(conv.out.v)]
    /\ UNCHANGED <<kind, base, focus, tfstate, last, provider, client>>

\* CreditsToUpdateAPI is called on the credits
CallCreditsToUpdateAPI ==
    /\ conv.fn = "credits" /\ conv.stage = "in"
    /\ conv' = [fn |-> "credits", stage |-> "update", arg |-> conv.arg,
                out |-> CreditsToUpdateAPI(conv.arg)]
    /\ UNCHANGED <<kind, base, focus, tfstate, last, provider, client>>

\* RatelimitsToAPI is called on the list
CallRatelimitsToAPI ==
    /\ conv.fn = "ratelimits" /\ conv.stage = "in"
    /\ conv' = [fn |-> "ratelimits", stage |-> "api", arg |-> conv.arg,
                out |-> RatelimitsToAPI(conv.arg)]
    /\ UNCHANGED <<kind, base, focus, tfstate, last, provider, client>>

\* RatelimitsFromAPI is called on the rate limits the service echoes
CallRatelimitsFromAPI ==
    /\ conv.fn = "ratelimits" /\ conv.stage = "api" /\ ~conv.out.err
    /\ conv' = [fn |-> "ratelimits", stage |-> "back", arg |-> conv.arg, out |-> conv.out,
                back |-> RatelimitsFromAPI(RatelimitEcho(conv.out.v))]
    /\ UNCHANGED <<kind, base, focus, tfstate, last, provider, client>>

\* RatelimitsFromAPI is called on the rate limits of a reply
CallRatelimitsFromAPIOnReply ==
    /\ conv.fn = "response" /\ conv.stage = "in"
    /\ conv' = [fn |-> "response", stage |-> "plan", arg |-> conv.arg,
                out |-> RatelimitsFromAPI(conv.arg)]
    /\ UNCHANGED <<kind, base, focus, tfstate, last, provider, client>>

\* MapToString is called on the mapping
CallMapToString ==
    /\ conv.fn = "map" /\ conv.stage = "in"
    /\ conv' = [fn |-> "map", stage |-> "str", arg |-> conv.arg,
                out |-> MapToString(conv.arg)]
    /\ UNCHANGED <<kind, base, focus, tfstate, last, provider, client>>

\* StringToMap is called on the string MapToString gave
CallStringToMap ==
    /\ conv.fn = "map" /\ conv.stage = "str"
    /\ conv' = [fn |-> "map", stage |-> "map", arg |-> conv.arg, out |-> conv.out,
                back |-> StringToMap(conv.out)]
    /\ UNCHANGED <<kind, base, focus, tfstate, last, provider, client>>

\* MapToString is called on the mapping StringToMap gave
CallMapToStringAgain ==
    /\ conv.fn = "map" /\ conv.stage = "map" /\ ~conv.back.err
    /\ conv' = [fn |-> "map", stage |-> "again", arg |-> conv.arg, out |-> conv.out,
                back |-> conv.back, again |-> MapToString(conv.back.m)]
    /\ UNCHANGED <<kind, base, focus, tfstate, last, provider, client>>

\* StringToMap is called on a string of the configuration
CallStringToMapOnText ==
    /\ conv.fn = "text" /\ conv.stage = "in"
    /\ conv' = [fn |-> "text", stage |-> "parsed", arg |-> conv.arg,
                out |-> StringToMap(conv.arg)]
    /\ UNCHANGED <<kind, base, focus, tfstate, last, provider, client>>

\* StringListToSlice is called on the list
CallStringListToSlice ==
    /\ conv.fn = "strings" /\ conv.stage = "in"
    /\ conv' = [fn |-> "strings", stage |-> "slice", arg |-> conv.arg,
                out |-> StringListToSlice(conv.arg)]
    /\ UNCHANGED <<kind, base, focus, tfstate, last, provider, client>>

\* SliceToStringList is called on the slice StringListToSlice gave
CallSliceToStringList ==
    /\ conv.fn = "strings" /\ conv.stage = "slice" /\ ~conv.out.err
    /\ conv' = [fn |-> "strings", stage |-> "back", arg |-> conv.arg, out |-> conv.out,
                back |-> SliceToStringList(conv.out.v)]
    /\ UNCHANGED <<kind, base, focus, tfstate, last, provider, client>>

\* SliceToStringList is called on a slice of a reply
CallSliceToStringListOnReply ==
    /\ conv.fn = "slice" /\ conv.stage = "in"
    /\ conv' = [fn |-> "slice", stage |-> "list", arg |-> conv.arg,
                out |-> SliceToStringList(conv.arg)]
    /\ UNCHANGED <<kind, base, focus, tfstate, last, provider, client>>

NextConv ==
    \/ CallCreditsToAPI \/ CallCreditsFromAPI \/ CallCreditsToUpdateAPI
    \/ CallRatelimitsToAPI \/ CallRatelimitsFromAPI
    \/ CallRatelimitsFromAPIOnReply
    \/ CallMapToString \/ CallStringToMap \/ CallMapToStringAgain
    \/ CallStringToMapOnText
    \/ CallStringListToSlice \/ CallSliceToStringList \/ CallSliceToStringListOnReply

SpecConv == InitConv /\ [][NextConv]_vars

(***************************************************************************)
(* The Key schema: the framework validates a configuration against the     *)
(* validators of the schema, and calls a handler only for a configuration  *)
(* that passed.  The validators modelled are those of byte_length,         *)
(* expires, roles, permissions and ratelimits; the other attributes of the *)
(* configurations below satisfy theirs.                                    *)
(***************************************************************************)
\* int64validator.Between(16, 255) of byte_length
ByteLengthMin == 16
ByteLengthMax == 255
\* an int64 of more than 31 bits: the value is hi * 1000000 + lo, 0 <= lo < 1000000
Wide(hi, lo) == [hi |-> hi, lo |-> lo]
WideLeq(a, b) == a.hi < b.hi \/ (a.hi = b.hi /\ a.lo <= b.lo)
WideSucc(a) == IF a.lo = 999999 THEN Wide(a.hi + 1, 0) ELSE Wide(a.hi, a.lo + 1)
WidePred(a) == IF a.lo = 0 THEN Wide(a.hi - 1, 999999) ELSE Wide(a.hi, a.lo - 1)

\* int64validator.Between(0, 4102444800000) of expires
ExpiresMin == Wide(0, 0)
ExpiresMax == Wide(4102444, 800000)
\* listvalidator.SizeAtMost of roles, permissions and ratelimits
RolesMax == 100
PermissionsMax == 1000
RatelimitsMax == 50

\* a list of n elements x
Repeat(x, n) == [i \in 1..n |-> x]

\* the values around each limit that a configuration is drawn from
SchemaDom(a) ==
    CASE a = "byte_length" ->
            {Null, Val(ByteLengthMin - 1), Val(ByteLengthMin), Val(ByteLengthMax),
             Val(ByteLengthMax + 1)}
      [] a = "expires" ->
            {Null, Val(WidePred(ExpiresMin)), Val(ExpiresMin), Val(Wide(1700000, 0)),
             Val(ExpiresMax), Val(WideSucc(ExpiresMax))}
      [] a = "roles" ->
            {Null, Val(<<>>), Val(Repeat(Val("r1"), RolesMax)),
             Val(Repeat(Val("r1"), RolesMax + 1))}
      [] a = "permissions" ->
            {Null, Val(Repeat(Val("p1"), PermissionsMax)),
             Val(Repeat(Val("p1"), PermissionsMax + 1))}
      [] a = "ratelimits" ->
            {Null, Val(Repeat(RL1, RatelimitsMax)), Val(Repeat(RL1, RatelimitsMax + 1))}
      [] a = "meta" -> {Null, Val(MetaA), Val(MetaBad)}

SchemaConfigs ==
    {[KeyBase("empty") EXCEPT !.byte_length = b, !.expires = e, !.roles = r,
                              !.permissions = p, !.ratelimits = l, !.meta = m] :
        b \in SchemaDom("byte_length"), e \in SchemaDom("expires"),
        r \in SchemaDom("roles"), p \in SchemaDom("permissions"),
        l \in SchemaDom("ratelimits"), m \in SchemaDom("meta")}

\* int64validator.Between: a null value is not validated
Int64Between(t, min, max) == IsKnown(t) => (t.v >= min /\ t.v <= max)
\* int64validator.Between on a value of more than 31 bits
WideBetween(t, min, max) == IsKnown(t) => (WideLeq(min, t.v) /\ WideLeq(t.v, max))
\* listvalidator.SizeAtMost: a null value is not validated
ListSizeAtMost(t, max) == IsKnown(t) => Len(t.v) <= max

\* a validation without the validator of expires
KeyValidate_ExpiresUnchecked(cfg) ==
    /\ ~IsNull(cfg.byte_length)
    /\ Int64Between(cfg.byte_length, ByteLengthMin, ByteLengthMax)
    /\ ListSizeAtMost(cfg.roles, RolesMax)
    /\ ListSizeAtMost(cfg.permissions, PermissionsMax)
    /\ ListSizeAtMost(cfg.ratelimits, RatelimitsMax)

\* keyResource.Schema: byte_length is required, and each validator accepts
KeyValidate(cfg) ==
    /\ ~IsNull(cfg.byte_length)
    /\ Int64Between(cfg.byte_length, ByteLengthMin, ByteLengthMax)
    /\ WideBetween(cfg.expires, ExpiresMin, ExpiresMax)
    /\ ListSizeAtMost(cfg.roles, RolesMax)
    /\ ListSizeAtMost(cfg.permissions, PermissionsMax)
    /\ ListSizeAtMost(cfg.ratelimits, RatelimitsMax)

\* a Key configuration is about to be validated; the provider and the Key
\* resource are configured (Configure has stored the client), as in Init
InitSchema ==
    /\ kind = "key"
    /\ base = "empty"
    /\ focus = "byte_length"
    /\ tfstate = Absent
    /\ last = Outcome("none", Absent, Absent, <<>>, FALSE, FALSE, FALSE, Absent)
    /\ provider = ProviderAfter(Val("rk_1"), "")
    /\ client = HandlerAfter(Nil, provider.data)
    /\ conv \in {ConvCall("schema", cfg) : cfg \in SchemaConfigs}

\* the framework validates the configuration
ValidateConfig ==
    /\ conv.fn = "schema" /\ conv.stage = "in"
    /\ conv' = [fn |-> "schema", stage |-> "validated", arg |-> conv.arg,
                ok |-> KeyValidate(conv.arg)]
    /\ UNCHANGED <<kind, base, focus, tfstate, last, provider, client>>

\* Create is called with the validated configuration as its plan, and returns
\* before the remote call
CreateValidatedAborted ==
    /\ conv.fn = "schema" /\ conv.stage = "validated" /\ conv.ok
    /\ IsAbsent(tfstate)
    /\ CreateBuild(kind, conv.arg).abort
    /\ last' = Outcome("Create", tfstate, conv.arg, <<>>, TRUE, FALSE, FALSE, Absent)
    /\ conv' = [conv EXCEPT !.stage = "handler"]
    /\ UNCHANGED <<kind, base, focus, tfstate, provider, client>>

\* Create is called with the validated configuration as its plan, and its
\* remote call fails
CreateValidatedFailed ==
    /\ conv.fn = "schema" /\ conv.stage = "validated" /\ conv.ok
    /\ IsAbsent(tfstate)
    /\ ~IsNil(client.client)
    /\ LET b == CreateBuild(kind, conv.arg) IN
        /\ ~b.abort
        /\ last' = Outcome("Create", tfstate, conv.arg,
                           <<Call(CreateCall(kind), b.req, "error")>>,
                           TRUE, FALSE, FALSE, Absent)
    /\ conv' = [conv EXCEPT !.stage = "handler"]
    /\ UNCHANGED <<kind, base, focus, tfstate, provider, client>>

\* Create is called with the validated configuration as its plan, its remote
\* call succeeds and the state is set
CreateValidatedDone ==
    /\ conv.fn = "schema" /\ conv.stage = "validated" /\ conv.ok
    /\ IsAbsent(tfstate)
    /\ ~IsNil(client.client)
    /\ \E id \in Ids, secret \in Secrets, now \in Times :
        LET b == CreateBuild(kind, conv.arg) IN
        /\ ~b.abort
        /\ tfstate' = CreatedState(kind, conv.arg, id, secret, now)
        /\ last' = Outcome("Create", tfstate, conv.arg,
                           <<Call(CreateCall(kind), b.req, "ok")>>,
                           b.err, FALSE, TRUE, Absent)
    /\ conv' = [conv EXCEPT !.stage = "handler"]
    /\ UNCHANGED <<kind, base, focus, provider, client>>

NextSchema ==
    \/ ValidateConfig
    \/ CreateValidatedAborted \/ CreateValidatedFailed \/ CreateValidatedDone

SpecSchema == InitSchema /\ [][NextSchema]_vars

(***************************************************************************)
(* The properties.                                                         *)
(***************************************************************************)
\* C1: the Key secret is write-once.  The state of a Key always holds a secret
\* that a Create stored, and a Read or an Update that writes the state leaves
\* `key` as it was in the prior state; the plaintext a get reply may carry
\* never reaches the state.
C1_KeyWriteOnce ==
    /\ (kind = "key" /\ ~IsAbsent(tfstate)) => tfstate.key \in {Val(s) : s \in Secrets}
    /\ (kind = "key" /\ last.op \in {"Read", "Update"} /\ last.wrote)
        => tfstate.key = last.prior.key

\* a Key Read has written the state from a reply that carries a plaintext, and
\* the state holds the secret of Create
C1_Witness ==
    /\ kind = "key" /\ last.op = "Read" /\ last.wrote
    /\ last.resp.plaintext = Ptr("sk_2")
    /\ tfstate.key = Val("sk_1")

\* C2: when a remote call of a Create, Update or Delete fails, the handler
\* records an error diagnostic, the failed call is the last call it makes, and
\* the state stays as it was before the handler ran.
C2_RemoteErrorStops ==
    (/\ last.op \in {"Create", "Update", "Delete"}
     /\ \E i \in DOMAIN last.calls : last.calls[i].res = "error")
    => /\ last.err
       /\ \A i \in DOMAIN last.calls :
            last.calls[i].res = "error" <=> i = Len(last.calls)
       /\ ~last.wrote
       /\ tfstate = last.prior

\* an Update whose update call succeeded and whose re-read failed
C2_Witness ==
    /\ last.op = "Update" /\ Len(last.calls) = 2
    /\ last.calls[1].res = "ok" /\ last.calls[2].res = "error"
    /\ last.err /\ tfstate = last.prior

\* C3: a Key Create or Update whose meta is text that is not JSON records an
\* error diagnostic, makes no remote call and leaves the state as it was.
C3_KeyBadMetaAborts ==
    (kind = "key" /\ last.op \in {"Create", "Update"} /\ last.plan.meta = Val(MetaBad))
    => (last.err /\ last.calls = <<>> /\ ~last.wrote /\ tfstate = last.prior)

\* a Key Update with such a meta has returned
C3_Witness ==
    /\ kind = "key" /\ last.op = "Update" /\ last.plan.meta = Val(MetaBad)
    /\ last.err /\ last.calls = <<>> /\ ~IsAbsent(tfstate)

\* C4: an Identity Create or Update whose meta is text that is not JSON records
\* an error diagnostic, makes no remote call and writes no state.
C4_IdentityBadMetaAborts ==
    (kind = "identity" /\ last.op \in {"Create", "Update"}
        /\ last.plan.meta = Val(MetaBad))
    => (last.err /\ last.calls = <<>> /\ ~last.wrote /\ tfstate = last.prior)

\* C5: when the get call of a Read fails, the Read records an error diagnostic
\* and the resource stays in the state with every attribute as it was.
C5_ReadErrorKeepsState ==
    (last.op = "Read" /\ last.calls[1].res = "error")
    => (last.err /\ ~last.wrote /\ ~IsAbsent(tfstate) /\ tfstate = last.prior)

\* a Read of an Identity whose get call failed
C5_Witness ==
    /\ kind = "identity" /\ last.op = "Read" /\ last.calls[1].res = "error"
    /\ last.err /\ tfstate = last.prior /\ ~IsAbsent(tfstate)

\* C6: the update request of a Key or Identity Update leaves out every
\* updatable attribute whose planned value equals its value in the prior state.
C6_UnchangedLeftOut ==
    (kind \in {"key", "identity"} /\ last.op = "Update" /\ last.calls # <<>>)
    => \A a \in (IF kind = "key"
                 THEN {"name", "enabled", "expires", "meta", "roles", "permissions",
                       "credits", "ratelimits"}
                 ELSE {"meta", "ratelimits"}) :
          last.plan[a] = last.prior[a] => last.calls[1].req[a] = Nil

\* C7: the UpdateKey request of a Key Update carries every mutable attribute
\* that the plan changes, to another value or to absent.
C7_ChangedForwarded ==
    (kind = "key" /\ last.op = "Update" /\ last.calls # <<>>)
    => \A a \in {"name", "external_id", "expires", "enabled", "meta", "roles",
                 "permissions", "credits", "ratelimits"} :
          last.plan[a] # last.prior[a]
          => (a \in DOMAIN last.calls[1].req /\ last.calls[1].req[a] # Nil)

\* C8: in the UpdateKey request of a Key Update, roles changed from a list
\* with elements to the empty list are the empty list, not unset, and
\* unchanged roles are unset; the same for permissions.  Violated: after a
\* roles list with a null element has recorded a conversion error, permissions
\* changed to the empty list are left unset in the request that is still sent.
C8_EmptyListExplicit ==
    (kind = "key" /\ last.op = "Update" /\ last.calls # <<>>)
    => \A a \in {"roles", "permissions"} :
          /\ (IsKnown(last.prior[a]) /\ Len(last.prior[a].v) > 0
                /\ last.plan[a] = Val(<<>>))
             => last.calls[1].req[a] = Ptr(<<>>)
          /\ last.plan[a] = last.prior[a] => last.calls[1].req[a] = Nil

\* C9: the state a successful Identity Update writes holds, for meta and
\* ratelimits, the conversion of what the follow-up GetIdentity returned.
C9_IdentityUpdateResyncs ==
    (kind = "identity" /\ last.op = "Update" /\ last.wrote)
    => /\ tfstate.meta = MapToString(last.resp.meta)
       /\ tfstate.ratelimits = RatelimitsFromAPI(last.resp.ratelimits)

\* C10: Update of an API, Permission or Role is never called with a plan that
\* differs from the prior state in an attribute the configuration sets, and
\* when called it makes no remote call, writes no state and records no
\* diagnostic.
C10_UpdateNeverWithChange ==
    (kind \in {"api", "permission", "role"} /\ last.op = "Update")
    => /\ \A a \in SettableAttrs(kind) : last.plan[a] = last.prior[a]
       /\ last.calls = <<>> /\ ~last.wrote /\ ~last.err

\* C11: a Key Delete makes one remote call, DeleteKey, for the key id of the
\* state, with permanent = true exactly when permanent_deletion is true in the
\* state, and permanent = false when it is false or not set.
C11_KeyDeletePermanent ==
    (kind = "key" /\ last.op = "Delete")
    => /\ Len(last.calls) = 1
       /\ last.calls[1].fn = "DeleteKey"
       /\ last.calls[1].req.keyId = last.prior.id.v
       /\ last.calls[1].req.permanent = Ptr(last.prior.permanent_deletion = Val(TRUE))

\* a Key whose permanent_deletion is not set has been deleted softly
C11_Witness ==
    /\ kind = "key" /\ last.op = "Delete" /\ IsAbsent(tfstate)
    /\ last.prior.permanent_deletion = Null
    /\ last.calls[1].req.permanent = Ptr(FALSE)

\* C12 (as stated): the provider's Configure takes the credential from the
\* root_key when it is set and from UNKEY_ROOT_KEY otherwise; it records an
\* error and publishes no client when both are absent or empty, and publishes
\* a client built from the credential in every other case.
C12_AsStated ==
    provider.done
    => LET set == ~IsNull(provider.rootKey)
           resolved == IF set THEN ValueString(provider.rootKey) ELSE provider.env
           bothEmpty == ValueString(provider.rootKey) = "" /\ provider.env = ""
       IN  IF bothEmpty THEN provider.err /\ provider.data = NoData
           ELSE ~provider.err /\ provider.data = ClientData(NewClient(resolved))

\* C12: the provider's Configure takes the credential from the root_key when
\* it is not null, the empty string included, and from UNKEY_ROOT_KEY
\* otherwise; it records an error and publishes no client when the root_key is
\* unknown or the credential is empty, and otherwise publishes one client built
\* from the credential.
C12_ProviderConfigure ==
    provider.done
    => LET resolved == IF ~IsNull(provider.rootKey) THEN ValueString(provider.rootKey)
                       ELSE provider.env
       IN  IF IsUnknown(provider.rootKey) \/ resolved = ""
           THEN provider.err /\ provider.data = NoData
           ELSE ~provider.err /\ provider.data = ClientData(NewClient(resolved))

\* with both a root_key and the environment variable, the client is built
\* from the root_key, and a resource handler holds it
C12_Witness ==
    /\ provider.done /\ provider.rootKey = Val("rk_1") /\ provider.env = "ek_1"
    /\ provider.data = ClientData(NewClient("rk_1"))
    /\ client.client = Ptr(NewClient("rk_1"))

\* C13: Configure of a resource handler stores the client when it is given
\* one; given data of another type it records an error and keeps the client
\* it held; given no data it records nothing and keeps the client it held.
C13_ResourceConfigure ==
    client.done
    => CASE client.given = NoData -> ~client.err /\ client.client = client.prior
         [] client.given.type = "*unkey.Unkey"
              -> ~client.err /\ client.client = Ptr(client.given.v)
         [] OTHER -> client.err /\ client.client = client.prior

\* a handler that held a client was given data of another type and holds the
\* client still
C13_Witness ==
    /\ client.done /\ client.given = OtherData /\ client.err
    /\ client.prior # Nil /\ client.client = client.prior

\* C14: the provider registers a constructor for the kind of every resource
\* handler: API, Key, Role, Permission and Identity.
C14_RegistryComplete == kind \in Resources

\* C15: the id Create wrote stays.  A resource in the state has a known id, no
\* Read or Update changes it, and every get, update and delete call carries it.
C15_IdImmutable ==
    /\ ~IsAbsent(tfstate) => IsKnown(tfstate.id)
    /\ last.op \in {"Read", "Update", "Delete"}
       => /\ ~IsAbsent(tfstate) => tfstate.id = last.prior.id
          /\ \A i \in DOMAIN last.calls :
               LET req == last.calls[i].req
               IN  (IF "keyId" \in DOMAIN req THEN req.keyId
                    ELSE IF "identity" \in DOMAIN req THEN req.identity
                    ELSE req.id) = last.prior.id.v

\* an Identity Update has made both its calls with the id of the state and has
\* written the state with that id
C15_Witness ==
    /\ kind = "identity" /\ last.op = "Update" /\ last.wrote
    /\ tfstate.id = Val("id_1") /\ last.prior.id = Val("id_1")
    /\ last.calls[1].req.identity = "id_1" /\ last.calls[2].req.id = "id_1"

\* C16: a Create whose remote call succeeds has made that one create call and
\* has written the planned attribute values with the returned identifier (for
\* a Key also the returned secret); a Create whose remote call fails, or that
\* makes none, writes nothing and the resource stays absent.
C16_CreateWrites ==
    last.op = "Create"
    => IF last.calls # <<>> /\ last.calls[1].res = "ok"
       THEN /\ Len(last.calls) = 1 /\ last.calls[1].fn = CreateCall(kind)
            /\ last.wrote
            /\ \A a \in SettableAttrs(kind) : tfstate[a] = last.plan[a]
            /\ tfstate.id \in {Val(id) : id \in Ids}
            /\ kind = "key" => tfstate.key \in {Val(s) : s \in Secrets}
       ELSE ~last.wrote /\ IsAbsent(tfstate) /\ last.err /\ Len(last.calls) <= 1

\* a Role has been created: one CreateRole call, and the state holds the plan
\* and the id
C16_Witness ==
    /\ kind = "role" /\ last.op = "Create" /\ last.wrote
    /\ Len(last.calls) = 1 /\ last.calls[1].fn = "CreateRole"
    /\ tfstate.id = Val("id_1") /\ tfstate.name = last.plan.name
    /\ tfstate.description = last.plan.description

\* C17: a Key Create whose credits have no refill, and whose CreateKey call
\* succeeds, records no error diagnostic and sends credits with the remaining
\* and no refill.
C17_CreditsWithoutRefill ==
    (/\ kind = "key" /\ last.op = "Create"
     /\ IsKnown(last.plan.credits) /\ IsNull(last.plan.credits.v.refill)
     /\ last.calls # <<>> /\ last.calls[1].res = "ok")
    => /\ ~last.err
       /\ last.calls[1].req.credits
            = Ptr([remaining |-> ValueInt64Pointer(last.plan.credits.v.remaining),
                   refill |-> Nil])

\* C18: CreditsToUpdateAPI does not fail on any credits, those without a
\* refill and the null and unknown ones included, and returns the remaining
\* and the refill that CreditsToAPI returns for them.
C18_UpdateVariantAgrees ==
    (conv.fn = "credits" /\ conv.stage = "update")
    => /\ ~conv.out.panic
       /\ conv.out.err = CreditsToAPI(conv.arg).err
       /\ IF IsNil(CreditsToAPI(conv.arg).v) THEN IsNil(conv.out.v)
          ELSE /\ ~IsNil(conv.out.v)
               /\ conv.out.v.v.remaining = CreditsToAPI(conv.arg).v.v.remaining
               /\ conv.out.v.v.refill = CreditsToAPI(conv.arg).v.v.refill

\* C19: CreditsFromAPI gives back the credits CreditsToAPI was called on, for
\* known credits with known fields, with or without a refill and a refill_day;
\* null and unknown credits give no request value, and no response value gives
\* null credits.
C19_CreditsMirror ==
    /\ (conv.fn = "credits" /\ conv.stage \in {"api", "back"})
       => /\ ~conv.out.err
          /\ ~IsKnown(conv.arg) <=> IsNil(conv.out.v)
    /\ (conv.fn = "credits" /\ conv.stage = "back")
       => /\ KnownCredits(conv.arg) => conv.back = conv.arg
          /\ IsNil(conv.out.v) => conv.back = Null

\* credits with a refill that has no refill_day have come back as they were
C19_Witness ==
    /\ conv.fn = "credits" /\ conv.stage = "back" /\ KnownCredits(conv.arg)
    /\ IsKnown(conv.arg.v.refill) /\ IsNull(conv.arg.v.refill.v.refill_day)
    /\ ~IsNil(conv.out.v.v.refill) /\ IsNil(conv.out.v.v.refill.v.refillDay)
    /\ conv.back = conv.arg

\* C20 (as stated): each known rate-limit list comes back from
\* RatelimitsFromAPI as RatelimitsToAPI was given it.
C20_AsStated ==
    (conv.fn = "ratelimits" /\ conv.stage = "back" /\ KnownRatelimits(conv.arg))
    => conv.back = conv.arg

\* C20: each known rate-limit list with at least one entry comes back from
\* RatelimitsFromAPI as RatelimitsToAPI was given it, entry by entry and in the
\* same order; the empty list comes back as null.
C20_RatelimitsRoundTrip ==
    (conv.fn = "ratelimits" /\ conv.stage = "back" /\ KnownRatelimits(conv.arg))
    => IF Len(conv.arg.v) > 0 THEN conv.back = conv.arg ELSE conv.back = Null

\* a list of two different entries has come back as it was
C20_Witness ==
    /\ conv.fn = "ratelimits" /\ conv.stage = "back"
    /\ conv.arg = Val(<<RL2, RL1>>) /\ conv.back = conv.arg

\* C21: RatelimitsFromAPI gives a null list for a reply without rate limits
\* (a nil or an empty slice), and otherwise a list as long as the reply's whose
\* entry i holds the name, limit, duration and auto_apply of the reply's entry i.
C21_FromAPIOrder ==
    (conv.fn = "response" /\ conv.stage = "plan")
    => IF IsNil(conv.arg) \/ conv.arg.v = <<>> THEN conv.out = Null
       ELSE /\ IsKnown(conv.out)
            /\ Len(conv.out.v) = Len(conv.arg.v)
            /\ \A i \in 1..Len(conv.arg.v) :
                /\ conv.out.v[i].v.name = Val(conv.arg.v[i].name)
                /\ conv.out.v[i].v.limit = Val(conv.arg.v[i].limit)
                /\ conv.out.v[i].v.duration = Val(conv.arg.v[i].duration)
                /\ conv.out.v[i].v.auto_apply = Val(conv.arg.v[i].autoApply)

\* a reply of two rate limits that are not in the order of their names has
\* been converted
C21_Witness ==
    /\ conv.fn = "response" /\ conv.stage = "plan"
    /\ conv.arg = Ptr(<<RLResp2, RLResp1>>)
    /\ conv.out = Val(<<RL2, RL1>>)

\* C22: MapToString of StringToMap of MapToString(M) is MapToString(M) for
\* every metadata mapping M, and StringToMap does not fail on MapToString(M);
\* for the empty mapping MapToString gives null, StringToMap of it no mapping,
\* and MapToString of that null again.
C22_MapRoundTrip ==
    /\ (conv.fn = "map" /\ conv.stage \in {"map", "again"}) => ~conv.back.err
    /\ (conv.fn = "map" /\ conv.stage = "again") => conv.again = conv.out
    /\ (conv.fn = "map" /\ conv.stage # "in" /\ (IsNil(conv.arg) \/ conv.arg.v = EmptyMap))
       => /\ conv.out = Null
          /\ conv.stage \in {"map", "again"} => IsNil(conv.back.m)
          /\ conv.stage = "again" => conv.again = Null

\* a mapping of two keys with a nested object has come back in the same
\* serialized form
C22_Witness ==
    /\ conv.fn = "map" /\ conv.stage = "again"
    /\ conv.arg = Ptr([a |-> JObj([b |-> JNum(2)]), b |-> JStr("b")])
    /\ conv.out = Val(<<"{", "\"a\"", ":", "{", "\"b\"", ":", "2", "}", ",",
                        "\"b\"", ":", "\"b\"", "}">>)
    /\ conv.again = conv.out

\* C23: StringToMap gives an error and no mapping for a string that is not
\* JSON, the mapping and no error for a string that is a JSON object, and no
\* mapping and no error for a null or unknown string.
C23_StringToMapCases ==
    (conv.fn = "text" /\ conv.stage = "parsed")
    => /\ ~IsKnown(conv.arg) => (~conv.out.err /\ IsNil(conv.out.m))
       /\ (IsKnown(conv.arg) /\ conv.arg.v \in InvalidTexts)
          => (conv.out.err /\ IsNil(conv.out.m))
       /\ (IsKnown(conv.arg) /\ conv.arg.v \in ObjectTexts)
          => (~conv.out.err /\ conv.out.m = Ptr(ObjectOf(conv.arg.v)))

\* a text that is cut short has been refused
C23_Witness ==
    /\ conv.fn = "text" /\ conv.stage = "parsed"
    /\ conv.arg = Val(MetaBad) /\ conv.out.err /\ IsNil(conv.out.m)

\* SliceToStringList gives null for a nil or empty slice and otherwise the
\* list of the slice's elements in their order
SliceToStringListAsClaimed ==
    (conv.fn = "slice" /\ conv.stage = "list")
    => IF IsNil(conv.arg) \/ conv.arg.v = <<>> THEN conv.out = Null
       ELSE /\ IsKnown(conv.out)
            /\ Len(conv.out.v) = Len(conv.arg.v)
            /\ \A i \in 1..Len(conv.arg.v) : conv.out.v[i] = Val(conv.arg.v[i])

\* StringListToSlice has given, without error, the elements of the list in
\* their order
ElementsInOrder ==
    /\ ~conv.out.err
    /\ ~IsNil(conv.out.v)
    /\ Len(conv.out.v.v) = Len(conv.arg.v)
    /\ \A i \in 1..Len(conv.arg.v) : Val(conv.out.v.v[i]) = conv.arg.v[i]

\* C24 (as stated): StringListToSlice gives no slice and no error for a null
\* or unknown list and the elements in order for every other list;
\* SliceToStringList is as above; a non-empty list comes back as it was.
C24_AsStated ==
    /\ (conv.fn = "strings" /\ conv.stage \in {"slice", "back"})
       => /\ ~IsKnown(conv.arg) => (~conv.out.err /\ IsNil(conv.out.v))
          /\ IsKnown(conv.arg) => ElementsInOrder
    /\ SliceToStringListAsClaimed
    /\ (conv.fn = "strings" /\ conv.stage = "back" /\ IsKnown(conv.arg)
        /\ Len(conv.arg.v) > 0)
       => conv.back = conv.arg

\* C24: StringListToSlice gives no slice and no error for a null or unknown
\* list, the elements in order for a list whose elements are all known, and an
\* error and no slice for a list with a null element; SliceToStringList is as
\* above; a non-empty list of known elements comes back as it was, and the
\* empty list comes back as null.
C24_StringListRoundTrip ==
    /\ (conv.fn = "strings" /\ conv.stage \in {"slice", "back"})
       => /\ ~IsKnown(conv.arg) => (~conv.out.err /\ IsNil(conv.out.v))
          /\ (IsKnown(conv.arg) /\ \A i \in DOMAIN conv.arg.v : IsKnown(conv.arg.v[i]))
             => ElementsInOrder
          /\ (IsKnown(conv.arg) /\ \E i \in DOMAIN conv.arg.v : ~IsKnown(conv.arg.v[i]))
             => (conv.out.err /\ IsNil(conv.out.v))
    /\ SliceToStringListAsClaimed
    /\ (conv.fn = "strings" /\ conv.stage = "back" /\ IsKnown(conv.arg))
       => IF Len(conv.arg.v) > 0 THEN conv.back = conv.arg ELSE conv.back = Null

\* a list of two strings has come back as it was
C24_Witness ==
    /\ conv.fn = "strings" /\ conv.stage = "back"
    /\ conv.arg = Val(<<Val("r2"), Val("r1")>>)
    /\ conv.out.v = Ptr(<<"r2", "r1">>)
    /\ conv.back = conv.arg

\* C25: when a Permission has been created and the Read that follows gets from
\* the service the name, slug and description that the create call carried,
\* the state after the Read holds the name, slug and description of the plan;
\* a plan without description sends none and reads back as null.
C25_PermissionCreateRead ==
    [][(/\ kind = "permission"
        /\ last.op = "Create" /\ last.wrote
        /\ last'.op = "Read" /\ last'.wrote
        /\ last'.resp.name = last.calls[1].req.name
        /\ last'.resp.slug = last.calls[1].req.slug
        /\ last'.resp.description = last.calls[1].req.description)
       => /\ tfstate'.name = last.plan.name
          /\ tfstate'.slug = last.plan.slug
          /\ tfstate'.description = last.plan.description
          /\ tfstate'.id = tfstate.id
          /\ IsNull(last.plan.description)
                => (IsNil(last.calls[1].req.description) /\ IsNull(tfstate'.description))]_vars

\* a Permission without description has been read back with a reply without
\* description, and the state holds a null description
C25_Witness ==
    /\ kind = "permission" /\ last.op = "Read" /\ last.wrote
    /\ IsNull(last.prior.description) /\ IsNil(last.resp.description)
    /\ last.resp.name = ValueString(last.prior.name)
    /\ last.resp.slug = ValueString(last.prior.slug)
    /\ tfstate = last.prior

\* C26: a configuration passes the validation of the Key schema exactly when
\* its byte_length is in 16..255, its expires is not set or in
\* 0..4102444800000 (written hi * 1000000 + lo) and it has at most 100 roles, 1000 permissions and 50
\* ratelimits; a handler runs on a configuration that passed only, and the
\* request it builds is within these limits.
C26_SchemaBounds ==
    LET c == conv.arg
        within ==
            /\ IsKnown(c.byte_length) /\ c.byte_length.v \in 16..255
            /\ IsKnown(c.expires)
                => (c.expires.v.hi \in 0..4102443
                    \/ (c.expires.v.hi = 4102444 /\ c.expires.v.lo <= 800000))
            /\ IsKnown(c.roles) => Len(c.roles.v) <= 100
            /\ IsKnown(c.permissions) => Len(c.permissions.v) <= 1000
            /\ IsKnown(c.ratelimits) => Len(c.ratelimits.v) <= 50
    IN  /\ (conv.fn = "schema" /\ conv.stage = "validated") => (conv.ok <=> within)
        /\ (conv.fn = "schema" /\ conv.stage \in {"in", "validated"})
           => (last.op = "none" /\ IsAbsent(tfstate))
        /\ (conv.fn = "schema" /\ conv.stage = "handler")
           => /\ within
              /\ last.op = "Create" /\ last.plan = c
              /\ last.calls # <<>>
                 => /\ last.calls[1].req.byteLength.v \in 16..255
                    /\ ~IsNil(last.calls[1].req.expires)
                        => (last.calls[1].req.expires.v.hi \in 0..4102443
                            \/ (last.calls[1].req.expires.v.hi = 4102444
                                /\ last.calls[1].req.expires.v.lo <= 800000))
                    /\ GoLen(last.calls[1].req.roles) <= 100
                    /\ GoLen(last.calls[1].req.permissions) <= 1000

\* a configuration at the upper limits has passed, and Create has made its
\* call with it and written the state
C26_Witness ==
    /\ conv.fn = "schema" /\ conv.stage = "handler"
    /\ conv.arg.byte_length = Val(255) /\ conv.arg.expires = Val(Wide(4102444, 800000))
    /\ conv.arg.roles = Val(Repeat(Val("r1"), 100))
    /\ conv.arg.permissions = Val(Repeat(Val("p1"), 1000))
    /\ conv.arg.ratelimits = Val(Repeat(RL1, 50))
    /\ last.wrote /\ ~IsAbsent(tfstate)
    /\ GoLen(last.calls[1].req.roles) = 100
    /\ GoLen(last.calls[1].req.permissions) = 1000

\* C27: a Key Read whose get call succeeded writes the state, with name,
\* enabled, expires, roles, permissions, meta, credits, ratelimits and
\* external_id taken from the reply (null where the reply has none), and with
\* id, key, api_id, prefix, byte_length, recoverable, permanent_deletion and
\* last_updated as they were.
C27_KeyReadOverwrites ==
    (kind = "key" /\ last.op = "Read" /\ last.calls[1].res = "ok")
    => /\ ~last.panic /\ last.wrote
       /\ tfstate.name = PointerValue(last.resp.name)
       /\ tfstate.enabled = Val(last.resp.enabled)
       /\ tfstate.expires = PointerValue(last.resp.expires)
       /\ IsNil(last.resp.roles) => IsNull(tfstate.roles)
       /\ IsNil(last.resp.permissions) => IsNull(tfstate.permissions)
       /\ IsNil(last.resp.meta) => IsNull(tfstate.meta)
       /\ IsNil(last.resp.credits) <=> IsNull(tfstate.credits)
       /\ IsNil(last.resp.ratelimits) => IsNull(tfstate.ratelimits)
       /\ IsNil(last.resp.identity) <=> IsNull(tfstate.external_id)
       /\ \A a \in {"id", "key", "api_id", "prefix", "byte_length", "recoverable",
                    "permanent_deletion", "last_updated"} :
            tfstate[a] = last.prior[a]

\* C28: a Key Read and a Key Update that wrote the state wrote a null list for
\* a reply without roles or without permissions, an empty sequence included,
\* and a null string for a reply without meta, an empty mapping included.
C28_EmptyCollectionsNull ==
    (kind = "key" /\ last.op \in {"Read", "Update"} /\ last.wrote)
    => /\ GoLen(last.resp.roles) = 0 => IsNull(tfstate.roles)
       /\ GoLen(last.resp.permissions) = 0 => IsNull(tfstate.permissions)
       /\ GoLen(last.resp.meta) = 0 => IsNull(tfstate.meta)

\* C29: a Key Create or Key Update that recorded an error diagnostic while it
\* converted the plan has made no remote call and has written no state.
C29_ConversionErrorStops ==
    /\ (kind = "key" /\ last.op = "Create" /\ KeyCreateRequest(last.plan).err)
       => (last.calls = <<>> /\ ~last.wrote)
    /\ (kind = "key" /\ last.op = "Update"
        /\ KeyUpdateRequest(last.prior, last.plan).err)
       => (last.calls = <<>> /\ ~last.wrote)

\* C30: a Key Read that follows a Key Update and gets the reply the Update's
\* re-read got writes the state the Update wrote.
C30_ReadAfterUpdate ==
    [][(/\ kind = "key"
        /\ last.op = "Update" /\ last.wrote
        /\ last'.op = "Read" /\ last'.calls[1].res = "ok"
        /\ last'.resp = last.resp)
       => (last'.wrote /\ tfstate' = tfstate)]_vars

====
